---- MODULE Spec2Model ----
(***************************************************************************)
(* A model of the schema editor of django/db/backends/schema.py            *)
(* (BaseDatabaseSchemaEditor): the session (__enter__/__exit__), the       *)
(* deferred statement list, and the statements each operation issues.      *)
(*                                                                         *)
(* Python's None is the string "None"; a field that was given no default   *)
(* has default "NOT_PROVIDED" (which is not None).  A statement is a       *)
(* record naming the SQL template it was built from (k) and the values     *)
(* substituted into the template.                                          *)
(***************************************************************************)
EXTENDS Naturals, Integers, Sequences, FiniteSets, TLC

VARIABLES
    collect_sql,     \* self.collect_sql
    features,        \* self.connection.features
    session,         \* "closed" | "open": between __enter__ and __exit__
    deferred_sql,    \* self.deferred_sql
    trace,           \* every call made on a collaborator, in order:
                     \*   cursor.execute, collected_sql.append, atomic enter/exit, connection.close
    db,              \* the constraints and indexes that exist in the database
    saved,           \* the database (and the caller's models) when the atomic block was entered
    exc,             \* the exception that is propagating out of the session body
    models,          \* the caller's model descriptors (the state the caller passes as old_field)
    call,            \* the last alter_field call: its arguments
    nops,            \* operations called so far
    nsessions,       \* sessions entered so far
    naming,          \* the arguments _create_index_name is called with, the
                     \*   process's hash seed, and the names it has returned
    result,          \* the last call of _constraint_names or column_sql: its
                     \*   arguments and the value it returned
    geometry_sql     \* self.geometry_sql of the Spatialite editor

vars == <<collect_sql, features, session, deferred_sql, trace, db, saved,
          exc, models, call, nops, nsessions, naming, result, geometry_sql>>

\* No call of _create_index_name is followed
NoNaming == [table |-> << >>, column_names |-> << >>, suffix |-> << >>, seed |-> 0,
             returned |-> << >>]

\* No call of _constraint_names or column_sql is followed
NoResult == [of |-> "", args |-> << >>, value |-> << >>]

----------------------------------------------------------------------------
(* Bounds of the model *)

MaxOps == 2          \* operations called on one editor
MaxSessions == 2     \* sessions entered on one editor
MaxRels == 2         \* tables that reference the altered table
MaxMatches == 2      \* constraints introspection may report for one column and kind
MaxFail == 8         \* the cursor.execute call of an operation that may raise
MaxSchemaOps == 3    \* operations called on one database, over its sessions
MaxEditorOps == 2    \* operations of any kind called in one session
MaxGroups == 2       \* field groups in a unique_together or index_together list
MaxTableLen == 3     \* characters of a table name
MaxNameLen == 6      \* the largest max_index_name_length of a dialect
MaxConstraints == 2  \* constraints introspection reports for one table

----------------------------------------------------------------------------
(* Small helpers *)

Range(s) == {s[i] : i \in 1..Len(s)}

RECURSIVE SeqOfSet(_)
SeqOfSet(S) ==
    IF S = {} THEN << >>
    ELSE LET x == CHOOSE y \in S : TRUE IN <<x>> \o SeqOfSet(S \ {x})

TableNames == <<"a", "b", "c", "d", "e", "f">>

----------------------------------------------------------------------------
(* Statements *)

\* k: the SQL template; columns: the column list; name: the constraint or index
\* name; ref: the referenced table and column of a foreign key, or the new name
\* of a rename; body: the column definitions or the ALTER fragments
Stmt(k, table, columns, name, ref, body, params) ==
    [k |-> k, table |-> table, columns |-> columns, name |-> name,
     ref |-> ref, body |-> body, params |-> params]

NoSql == Stmt("", "", << >>, << >>, << >>, << >>, << >>)

Event(ev, sql, raised, e) == [ev |-> ev, sql |-> sql, raised |-> raised, exc |-> e]

----------------------------------------------------------------------------
(* Fields and models, as the caller describes them *)

NoRel == [to |-> "", to_column |-> "", through |-> "", auto_created |-> FALSE]

FK(to, to_column) == [to |-> to, to_column |-> to_column, through |-> "", auto_created |-> FALSE]

M2M(to, through, auto_created) ==
    [to |-> to, to_column |-> "id", through |-> through, auto_created |-> auto_created]

\* field.db_parameters(connection)['type'] and ['check'], and the other attributes
\* the editor reads
BaseField ==
    [name |-> "x", column |-> "x", type |-> "integer", check |-> "None",
     null |-> FALSE, unique |-> FALSE, primary_key |-> FALSE, db_index |-> FALSE,
     rel |-> NoRel, default |-> "NOT_PROVIDED", blank |-> FALSE,
     empty_strings_allowed |-> FALSE, internal_type |-> "IntegerField",
     db_tablespace |-> "", spatial_index |-> FALSE]

IdField ==
    [BaseField EXCEPT !.name = "id", !.column = "id", !.unique = TRUE,
                      !.primary_key = TRUE, !.internal_type = "AutoField"]

has_rel(field) == field.rel.to # ""

Model(db_table, local_fields, unique_together, index_together, local_many_to_many) ==
    [db_table |-> db_table, local_fields |-> local_fields,
     unique_together |-> unique_together, index_together |-> index_together,
     local_many_to_many |-> local_many_to_many, db_tablespace |-> ""]

\* model._meta.get_field_by_name(name)[0].column
ColumnOf(model, name) ==
    LET i == CHOOSE j \in 1..Len(model.local_fields) : model.local_fields[j].name = name
    IN model.local_fields[i].column

RECURSIVE ColumnsOf(_, _)
ColumnsOf(model, names) ==
    IF names = << >> THEN << >>
    ELSE <<ColumnOf(model, Head(names))>> \o ColumnsOf(model, Tail(names))

----------------------------------------------------------------------------
(* Field <-> database mapping *)

IsCallable(v) == v \in {"callable_d1", "callable_None"}

CallDefault(v) == IF v = "callable_d1" THEN "d1" ELSE "None"

has_default(field) == field.default # "NOT_PROVIDED"

effective_default(field) ==
    LET default == IF has_default(field) THEN field.default
                   ELSE IF ~field.null /\ field.blank /\ field.empty_strings_allowed THEN ""
                   ELSE "None"
    IN IF IsCallable(default) THEN CallDefault(default) ELSE default

prepare_default(value) == [sql |-> "%s", params |-> <<value>>]

\* column_sql that takes the nullability as the field declares it
column_sql_null_as_declared(model, field, include_default) ==
    IF field.type = "None" THEN [sql |-> << >>, params |-> << >>, none |-> TRUE]
    ELSE
    LET default_value == effective_default(field)
        with_default == include_default /\ default_value # "None"
        s1 == IF with_default THEN <<field.type, "DEFAULT %s">> ELSE <<field.type>>
        p1 == IF with_default THEN prepare_default(default_value).params ELSE << >>
        s2 == s1 \o (IF field.null THEN <<"NULL">> ELSE <<"NOT NULL">>)
        s3 == s2 \o (IF field.primary_key THEN <<"PRIMARY KEY">>
                     ELSE IF field.unique THEN <<"UNIQUE">> ELSE << >>)
    IN [sql |-> s3, params |-> p1, none |-> FALSE]

\* The column definition as the list of its clauses, and its parameters;
\* sql = "None" stands for the (None, None) result
column_sql(model, field, include_default) ==
    IF field.type = "None" THEN [sql |-> << >>, params |-> << >>, none |-> TRUE]
    ELSE
    LET default_value == effective_default(field)
        with_default == include_default /\ default_value # "None"
        s1 == IF with_default THEN <<field.type, "DEFAULT %s">> ELSE <<field.type>>
        p1 == IF with_default THEN prepare_default(default_value).params ELSE << >>
        null == IF field.empty_strings_allowed /\ ~field.primary_key
                   /\ features.interprets_empty_strings_as_nulls
                THEN TRUE ELSE field.null
        s2 == s1 \o (IF null THEN <<"NULL">> ELSE <<"NOT NULL">>)
        s3 == s2 \o (IF field.primary_key THEN <<"PRIMARY KEY">>
                     ELSE IF field.unique THEN <<"UNIQUE">> ELSE << >>)
        tablespace == IF field.db_tablespace # "" THEN field.db_tablespace
                      ELSE model.db_tablespace
        s4 == s3 \o (IF tablespace # "" /\ features.supports_tablespaces /\ field.unique
                     THEN <<"TABLESPACE">> ELSE << >>)
    IN [sql |-> s4, params |-> p1, none |-> FALSE]

\* The abstract name of an index or constraint: the arguments it is derived from
create_index_name(table, column_names, suffix) == <<table>> \o column_names \o <<suffix>>

----------------------------------------------------------------------------
(* The database: the constraints and indexes that exist, and what a
   successfully executed statement does to them *)

Constraint(name, table, columns, kind, to) ==
    [name |-> name, table |-> table, columns |-> columns, kind |-> kind, to |-> to]

\* The constraints a column definition (or a UNIQUE (...) clause) creates inline
InlineConstraints(table, frag) ==
    IF frag[1] = "UNIQUE"
    THEN {Constraint(<<table>> \o Tail(frag) \o <<"inline_uniq">>, table, Tail(frag), "unique", "")}
    ELSE {Constraint(<<table, frag[1], "inline_pk">>, table, <<frag[1]>>, "primary_key", "")
             : x \in {1} \cap {IF "PRIMARY KEY" \in Range(frag) THEN 1 ELSE 0}}
         \cup
         {Constraint(<<table, frag[1], "inline_uniq">>, table, <<frag[1]>>, "unique", "")
             : x \in {1} \cap {IF "UNIQUE" \in Range(frag) THEN 1 ELSE 0}}
         \cup
         {Constraint(<<table, frag[1], "inline_check">>, table, <<frag[1]>>, "check", "")
             : x \in {1} \cap {IF "CHECK" \in Range(frag) THEN 1 ELSE 0}}

CreatedKind(k) ==
    CASE k = "sql_create_unique" -> "unique"
      [] k = "sql_create_index" -> "index"
      [] k = "sql_create_fk" -> "foreign_key"
      [] k = "sql_create_pk" -> "primary_key"
      [] k = "sql_create_check" -> "check"
      [] OTHER -> ""

RenameIn(columns, old, new) == [i \in 1..Len(columns) |-> IF columns[i] = old THEN new ELSE columns[i]]

Apply(d, sql) ==
    CASE sql.k = "sql_create_table" ->
            d \cup UNION {InlineConstraints(sql.table, sql.body[i]) : i \in 1..Len(sql.body)}
      [] sql.k = "sql_create_column" ->
            d \cup UNION {InlineConstraints(sql.table, sql.body[i]) : i \in 1..Len(sql.body)}
      [] CreatedKind(sql.k) # "" ->
            d \cup {Constraint(sql.name, sql.table, sql.columns, CreatedKind(sql.k),
                               IF sql.ref = << >> THEN "" ELSE sql.ref[1])}
      [] sql.k \in {"sql_delete_unique", "sql_delete_fk", "sql_delete_check", "sql_delete_pk"} ->
            {c \in d : ~(c.table = sql.table /\ c.name = sql.name)}
      [] sql.k = "sql_delete_index" ->
            {c \in d : c.name # sql.name}
      [] sql.k = "sql_delete_sequence" ->
            {c \in d : ~(c.kind = "sequence" /\ c.name = sql.name)}
      [] sql.k = "sql_delete_table" ->
            {c \in d : c.table # sql.table /\ c.to # sql.table}
      [] sql.k = "sql_delete_column" ->
            {c \in d : ~(c.table = sql.table /\ sql.columns[1] \in Range(c.columns))}
      [] sql.k = "sql_rename_column" ->
            {IF c.table = sql.table
             THEN [c EXCEPT !.columns = RenameIn(c.columns, sql.columns[1], sql.ref[1])]
             ELSE c : c \in d}
      [] sql.k = "sql_rename_table" ->
            {[c EXCEPT !.table = IF c.table = sql.table THEN sql.ref[1] ELSE c.table,
                       !.to = IF c.to = sql.table THEN sql.ref[1] ELSE c.to] : c \in d}
      [] OTHER -> d

\* connection.introspection.get_constraints(cursor, table): name -> infodict
get_constraints(d, table) ==
    {[name |-> c.name, columns |-> c.columns,
      unique |-> c.kind = "unique" \/ (c.kind = "primary_key" /\ features.pk_reported_unique),
      primary_key |-> c.kind = "primary_key",
      index |-> c.kind = "index", check |-> c.kind = "check",
      foreign_key |-> c.kind = "foreign_key"] : c \in {x \in d : x.table = table}}

\* A filter argument is "None" (do not filter), "True" or "False"
Differs(flag, value) == flag # "None" /\ value # (flag = "True")

constraint_names(d, table, column_names, unique, primary_key, index, foreign_key, check) ==
    SeqOfSet({info.name : info \in
        {i \in get_constraints(d, table) :
            /\ column_names = << >> \/ column_names = i.columns
            /\ ~Differs(unique, i.unique)
            /\ ~Differs(primary_key, i.primary_key)
            /\ ~Differs(index, i.index)
            /\ ~Differs(check, i.check)
            /\ ~(foreign_key # "None" /\ ~i.foreign_key)}})

----------------------------------------------------------------------------
(* The running operation: what it has done so far.  fail is the ordinal of
   the cursor.execute call of this operation that raises (0: none does); once
   an exception propagates (exc # "none") the rest of the operation is
   skipped.  collect is self.collect_sql of the editor that runs it. *)

Start(fail) ==
    [trace |-> trace, db |-> db, deferred |-> deferred_sql, exc |-> "none",
     n |-> 0, fail |-> fail, collect |-> collect_sql, geometry |-> geometry_sql]

execute(s, sql) ==
    IF s.exc # "none" THEN s
    ELSE IF s.collect
    THEN [s EXCEPT !.trace = Append(@, Event("collect", sql, FALSE, "none"))]
    ELSE IF s.n + 1 = s.fail
    THEN [s EXCEPT !.trace = Append(@, Event("execute", sql, TRUE, "none")),
                   !.exc = "DatabaseError", !.n = @ + 1]
    ELSE [s EXCEPT !.trace = Append(@, Event("execute", sql, FALSE, "none")),
                   !.db = Apply(@, sql), !.n = @ + 1]

RECURSIVE execute_all(_, _)
execute_all(s, sqls) ==
    IF sqls = << >> THEN s ELSE execute_all(execute(s, Head(sqls)), Tail(sqls))

defer(s, sql) == IF s.exc # "none" THEN s ELSE [s EXCEPT !.deferred = Append(@, sql)]

defer_all(s, sqls) == IF s.exc # "none" THEN s ELSE [s EXCEPT !.deferred = @ \o sqls]

raise(s, e) == IF s.exc # "none" THEN s ELSE [s EXCEPT !.exc = e]

close_connection(s) ==
    IF s.exc # "none" THEN s
    ELSE [s EXCEPT !.trace = Append(@, Event("close", NoSql, FALSE, "none"))]

----------------------------------------------------------------------------
(* create_model *)

sql_create_index(table, columns, suffix) ==
    Stmt("sql_create_index", table, columns, create_index_name(table, columns, suffix),
         << >>, << >>, << >>)

\* connection.ops.autoinc_sql(table, column): None, or the statements that set
\* up the sequence of an AutoField
autoinc_sql(table, column) ==
    IF features.autoinc_sql
    THEN <<Stmt("autoinc_sql", table, <<column>>, <<"sequence">>, << >>, << >>, << >>),
           Stmt("autoinc_sql", table, <<column>>, <<"trigger">>, << >>, << >>, << >>)>>
    ELSE << >>

\* The auto-created through model of a many-to-many field of model
through_model(model, field) ==
    Model(field.rel.through,
          <<IdField,
            [BaseField EXCEPT !.name = "from", !.column = "from_id", !.db_index = TRUE,
                              !.rel = FK(model.db_table, "id")],
            [BaseField EXCEPT !.name = "to", !.column = "to_id", !.db_index = TRUE,
                              !.rel = FK(field.rel.to, field.rel.to_column)]>>,
          << >>, << >>, << >>)

\* create_model_field with the FK statement executed at once instead of deferred
create_model_field_eager_fk(acc, model, field) ==
    LET d == column_sql(model, field, FALSE)
    IN IF d.none THEN acc
       ELSE [s |-> IF has_rel(field) /\ features.supports_foreign_keys
                   THEN execute(acc.s,
                          Stmt("sql_create_fk", model.db_table, <<field.column>>,
                               create_index_name(model.db_table, <<field.column>>,
                                                 "_fk_%s_%s"),
                               <<field.rel.to, field.rel.to_column>>, << >>, << >>))
                   ELSE acc.s,
             column_sqls |-> Append(acc.column_sqls, <<field.column>> \o d.sql),
             params |-> acc.params \o d.params]

\* create_model_field with the index statement executed at once instead of deferred
create_model_field_eager_index(acc, model, field) ==
    LET d == column_sql(model, field, FALSE)
    IN IF d.none THEN acc
       ELSE
       LET definition == IF field.check # "None" THEN d.sql \o <<"CHECK", field.check>>
                         ELSE d.sql
           s1 == IF field.db_index /\ ~field.unique
                 THEN execute(acc.s, sql_create_index(model.db_table, <<field.column>>, ""))
                 ELSE acc.s
           s2 == IF has_rel(field) /\ features.supports_foreign_keys
                 THEN defer(s1,
                        Stmt("sql_create_fk", model.db_table, <<field.column>>,
                             create_index_name(model.db_table, <<field.column>>,
                                               "_fk_%s_%s"),
                             <<field.rel.to, field.rel.to_column>>, << >>, << >>))
                 ELSE s1
           s3 == IF field.internal_type = "AutoField"
                 THEN defer_all(s2, autoinc_sql(model.db_table, field.column))
                 ELSE s2
       IN [s |-> s3,
           column_sqls |-> Append(acc.column_sqls, <<field.column>> \o definition),
           params |-> acc.params \o d.params]

\* create_model_field with the auto-increment statements executed at once
create_model_field_eager_autoinc(acc, model, field) ==
    LET d == column_sql(model, field, FALSE)
    IN IF d.none THEN acc
       ELSE
       LET definition == IF field.check # "None" THEN d.sql \o <<"CHECK", field.check>>
                         ELSE d.sql
           s1 == IF field.db_index /\ ~field.unique
                 THEN defer(acc.s, sql_create_index(model.db_table, <<field.column>>, ""))
                 ELSE acc.s
           s2 == IF has_rel(field) /\ features.supports_foreign_keys
                 THEN defer(s1,
                        Stmt("sql_create_fk", model.db_table, <<field.column>>,
                             create_index_name(model.db_table, <<field.column>>,
                                               "_fk_%s_%s"),
                             <<field.rel.to, field.rel.to_column>>, << >>, << >>))
                 ELSE s1
           s3 == IF field.internal_type = "AutoField"
                 THEN execute_all(s2, autoinc_sql(model.db_table, field.column))
                 ELSE s2
       IN [s |-> s3,
           column_sqls |-> Append(acc.column_sqls, <<field.column>> \o definition),
           params |-> acc.params \o d.params]

\* One iteration of the loop over model._meta.local_fields (lines 176-218):
\* acc is [s, column_sqls, params]
create_model_field(acc, model, field) ==
    LET d == column_sql(model, field, FALSE)
    IN IF d.none THEN acc
       ELSE
       LET definition == IF field.check # "None" THEN d.sql \o <<"CHECK", field.check>>
                         ELSE d.sql
           s1 == IF field.db_index /\ ~field.unique
                 THEN defer(acc.s, sql_create_index(model.db_table, <<field.column>>, ""))
                 ELSE acc.s
           s2 == IF has_rel(field) /\ features.supports_foreign_keys
                 THEN defer(s1,
                        Stmt("sql_create_fk", model.db_table, <<field.column>>,
                             create_index_name(model.db_table, <<field.column>>,
                                               "_fk_%s_%s"),
                             <<field.rel.to, field.rel.to_column>>, << >>, << >>))
                 ELSE s1
           s3 == IF field.internal_type = "AutoField"
                 THEN defer_all(s2, autoinc_sql(model.db_table, field.column))
                 ELSE s2
       IN [s |-> s3,
           column_sqls |-> Append(acc.column_sqls, <<field.column>> \o definition),
           params |-> acc.params \o d.params]

RECURSIVE create_model_fields(_, _, _)
create_model_fields(acc, model, fields) ==
    IF fields = << >> THEN acc
    ELSE create_model_fields(create_model_field(acc, model, Head(fields)), model, Tail(fields))

unique_together_sqls(model) ==
    [i \in 1..Len(model.unique_together) |->
        <<"UNIQUE">> \o ColumnsOf(model, model.unique_together[i])]

index_together_sqls(model) ==
    [i \in 1..Len(model.index_together) |->
        sql_create_index(model.db_table, ColumnsOf(model, model.index_together[i]), "_idx")]

RECURSIVE create_model(_, _)
RECURSIVE create_through_models(_, _, _)

create_model(s, model) ==
    LET acc == create_model_fields([s |-> s, column_sqls |-> << >>, params |-> << >>],
                                   model, model.local_fields)
        sql == Stmt("sql_create_table", model.db_table, << >>, << >>, << >>,
                    acc.column_sqls \o unique_together_sqls(model), acc.params)
        s1 == execute(acc.s, sql)
        s2 == execute_all(s1, index_together_sqls(model))
    IN create_through_models(s2, model, model.local_many_to_many)

create_through_models(s, model, m2ms) ==
    IF m2ms = << >> THEN s
    ELSE create_through_models(create_model(s, through_model(model, Head(m2ms))),
                               model, Tail(m2ms))

----------------------------------------------------------------------------
(* delete_model, add_field, remove_field *)

delete_model(s, model) ==
    execute(s, Stmt("sql_delete_table", model.db_table, << >>, << >>, << >>, << >>, << >>))

is_m2m(field) == field.internal_type = "ManyToManyField"

\* "ALTER TABLE %(table)s %(changes)s" with one or more fragments; a fragment is
\* the template of the change, the column, and the type or default it sets
sql_alter_column(table, column, changes, params) ==
    Stmt("sql_alter_column", table, <<column>>, << >>, << >>, changes, params)

\* add_field that drops the default only of a field that was given one
add_field_drop_explicit_default(s, model, field) ==
    IF is_m2m(field) /\ field.rel.auto_created
    THEN create_model(s, through_model(model, field))
    ELSE
    LET d == column_sql(model, field, TRUE)
    IN IF d.none THEN s
       ELSE
       LET definition == IF field.check # "None" THEN d.sql \o <<"CHECK", field.check>>
                         ELSE d.sql
           s1 == execute(s, Stmt("sql_create_column", model.db_table, <<field.column>>,
                                 << >>, << >>, <<<<field.column>> \o definition>>, d.params))
           s2 == IF has_default(field) /\ field.default # "None"
                 THEN execute(s1, sql_alter_column(model.db_table, field.column,
                                    <<<<"sql_alter_column_no_default", field.column>>>>, << >>))
                 ELSE s1
           s3 == IF field.db_index /\ ~field.unique
                 THEN defer(s2, sql_create_index(model.db_table, <<field.column>>, ""))
                 ELSE s2
           s4 == IF has_rel(field) /\ features.supports_foreign_keys
                 THEN defer(s3,
                        Stmt("sql_create_fk", model.db_table, <<field.column>>,
                             <<field.column, "_refs_", field.rel.to_column,
                               model.db_table, field.rel.to>>,
                             <<field.rel.to, field.rel.to_column>>, << >>, << >>))
                 ELSE s3
       IN IF features.connection_persists_old_columns THEN close_connection(s4) ELSE s4

\* add_field (lines 339-403)
add_field(s, model, field) ==
    IF is_m2m(field) /\ field.rel.auto_created
    THEN create_model(s, through_model(model, field))
    ELSE
    LET d == column_sql(model, field, TRUE)
    IN IF d.none THEN s
       ELSE
       LET definition == IF field.check # "None" THEN d.sql \o <<"CHECK", field.check>>
                         ELSE d.sql
           s1 == execute(s, Stmt("sql_create_column", model.db_table, <<field.column>>,
                                 << >>, << >>, <<<<field.column>> \o definition>>, d.params))
           s2 == IF field.default # "None"
                 THEN execute(s1, sql_alter_column(model.db_table, field.column,
                                    <<<<"sql_alter_column_no_default", field.column>>>>, << >>))
                 ELSE s1
           s3 == IF field.db_index /\ ~field.unique
                 THEN defer(s2, sql_create_index(model.db_table, <<field.column>>, ""))
                 ELSE s2
           s4 == IF has_rel(field) /\ features.supports_foreign_keys
                 THEN defer(s3,
                        Stmt("sql_create_fk", model.db_table, <<field.column>>,
                             <<field.column, "_refs_", field.rel.to_column,
                               model.db_table, field.rel.to>>,
                             <<field.rel.to, field.rel.to_column>>, << >>, << >>))
                 ELSE s3
       IN IF features.connection_persists_old_columns THEN close_connection(s4) ELSE s4

remove_field(s, model, field) ==
    IF is_m2m(field) /\ field.rel.auto_created
    THEN delete_model(s, through_model(model, field))
    ELSE IF field.type = "None" THEN s
    ELSE
    LET s1 == execute(s, Stmt("sql_delete_column", model.db_table, <<field.column>>,
                              << >>, << >>, << >>, << >>))
    IN IF features.connection_persists_old_columns THEN close_connection(s1) ELSE s1

----------------------------------------------------------------------------
(* alter_unique_together, alter_index_together *)

\* set(tuple(fields) for fields in together)
tuples(together) == Range(together)

\* olds.difference(news) dropping every old group
difference_all(olds, news) == olds

\* olds.difference(news)
difference(olds, news) == olds \ news

\* The orders in which a for loop may visit the elements of a set
RECURSIVE Orders(_)
Orders(S) ==
    IF S = {} THEN {<< >>}
    ELSE UNION {{<<x>> \o o : o \in Orders(S \ {x})} : x \in S}

\* The introspection filter of each drop template: unique=True or index=True
together_names(s, model, fields, k) ==
    constraint_names(s.db, model.db_table, ColumnsOf(model, fields),
                     IF k = "sql_delete_unique" THEN "True" ELSE "None", "None",
                     IF k = "sql_delete_index" THEN "True" ELSE "None", "None", "None")

\* The body of the deletion loop raising only when nothing is found
delete_group_if_found(s, model, fields, k) ==
    IF Len(together_names(s, model, fields, k)) = 0 THEN raise(s, "ValueError")
    ELSE execute(s, Stmt(k, model.db_table, << >>, together_names(s, model, fields, k)[1],
                         << >>, << >>, << >>))

\* The body of the deletion loop: the count check, then the drop of constraint_names[0]
delete_group(s, model, fields, k) ==
    IF Len(together_names(s, model, fields, k)) # 1 THEN raise(s, "ValueError")
    ELSE execute(s, Stmt(k, model.db_table, << >>, together_names(s, model, fields, k)[1],
                         << >>, << >>, << >>))

RECURSIVE delete_groups(_, _, _, _)
delete_groups(s, model, groups, k) ==
    IF groups = << >> THEN s
    ELSE delete_groups(delete_group(s, model, Head(groups), k), model, Tail(groups), k)

\* The body of the creation loop
create_group(s, model, fields, k, suffix) ==
    execute(s, Stmt(k, model.db_table, ColumnsOf(model, fields),
                    create_index_name(model.db_table, ColumnsOf(model, fields), suffix),
                    << >>, << >>, << >>))

RECURSIVE create_groups(_, _, _, _, _)
create_groups(s, model, groups, k, suffix) ==
    IF groups = << >> THEN s
    ELSE create_groups(create_group(s, model, Head(groups), k, suffix),
                       model, Tail(groups), k, suffix)

\* deleted and created are the orders in which the two loops visit
\* olds.difference(news) and news.difference(olds)
alter_unique_together(s, model, deleted, created) ==
    create_groups(delete_groups(s, model, deleted, "sql_delete_unique"),
                  model, created, "sql_create_unique", "_uniq")

alter_index_together(s, model, deleted, created) ==
    create_groups(delete_groups(s, model, deleted, "sql_delete_index"),
                  model, created, "sql_create_index", "_idx")

----------------------------------------------------------------------------
(* alter_field *)

\* for name in names: self.execute(<drop template k> % {table, name})
RECURSIVE drop_all(_, _, _, _)
drop_all(s, k, table, names) ==
    IF names = << >> THEN s
    ELSE drop_all(execute(s, Stmt(k, table, << >>, Head(names), << >>, << >>, << >>)),
                  k, table, Tail(names))

\* drop_found that raises only when strict finds nothing
drop_found_unless_none(s, strict, k, table, names) ==
    IF strict /\ Len(names) = 0 THEN raise(s, "ValueError")
    ELSE drop_all(s, k, table, names)

\* if strict and len(names) != 1: raise ValueError; then drop every name found
drop_found(s, strict, k, table, names) ==
    IF strict /\ Len(names) # 1 THEN raise(s, "ValueError")
    ELSE drop_all(s, k, table, names)

\* A related object: the table of rel.model and rel.field
Rel(table, field) == [table |-> table, field |-> field]

RECURSIVE drop_incoming_fks(_, _)
drop_incoming_fks(s, rels) ==
    IF rels = << >> THEN s
    ELSE LET rel == Head(rels)
             rel_fk_names == constraint_names(s.db, rel.table, <<rel.field.column>>,
                                              "None", "None", "None", "True", "None")
         IN drop_incoming_fks(drop_all(s, "sql_delete_fk", rel.table, rel_fk_names), Tail(rels))

\* The hook of the base editor: the ALTER fragment, its parameters, the post-actions
alter_column_type_sql(table, column, type) ==
    [fragment |-> <<"sql_alter_column_type", column, type>>, params |-> << >>, post |-> << >>]

Action(fragment, params) == [fragment |-> fragment, params |-> params]

alter_actions(old_field, new_field) ==
    LET old_default == effective_default(old_field)
        new_default == effective_default(new_field)
        t == alter_column_type_sql("", new_field.column, new_field.type)
    IN (IF old_field.type # new_field.type THEN <<Action(t.fragment, t.params)>> ELSE << >>)
       \o
       (IF old_default # new_default
        THEN IF new_default = "None"
             THEN <<Action(<<"sql_alter_column_no_default", new_field.column>>, << >>)>>
             ELSE <<Action(<<"sql_alter_column_default", new_field.column,
                             prepare_default(new_default).sql>>,
                           prepare_default(new_default).params)>>
        ELSE << >>)
       \o
       (IF old_field.null # new_field.null
        THEN IF new_field.null
             THEN <<Action(<<"sql_alter_column_null", new_field.column>>, << >>)>>
             ELSE <<Action(<<"sql_alter_column_not_null", new_field.column>>, << >>)>>
        ELSE << >>)

RECURSIVE concat_params(_)
concat_params(actions) ==
    IF actions = << >> THEN << >> ELSE Head(actions).params \o concat_params(Tail(actions))

\* apply_actions that never combines the actions
apply_actions_one_each(s, table, column, actions) ==
    execute_all(s, [i \in 1..Len(actions) |->
                       sql_alter_column(table, column, <<actions[i].fragment>>,
                                        actions[i].params)])

\* lines 580-593: one ALTER TABLE for all the actions, or one for each
apply_actions(s, table, column, actions) ==
    IF actions = << >> THEN s
    ELSE IF features.supports_combined_alters
    THEN execute(s, sql_alter_column(table, column,
                        [i \in 1..Len(actions) |-> actions[i].fragment],
                        concat_params(actions)))
    ELSE execute_all(s, [i \in 1..Len(actions) |->
                            sql_alter_column(table, column, <<actions[i].fragment>>,
                                             actions[i].params)])

RECURSIVE alter_rel_types(_, _)
alter_rel_types(s, rels) ==
    IF rels = << >> THEN s
    ELSE LET rel == Head(rels)
         IN alter_rel_types(
                execute(s, sql_alter_column(rel.table, rel.field.column,
                             <<<<"sql_alter_column_type", rel.field.column, rel.field.type>>>>,
                             << >>)),
                Tail(rels))

RECURSIVE rebuild_incoming_fks(_, _, _, _)
rebuild_incoming_fks(s, rels, table, column) ==
    IF rels = << >> THEN s
    ELSE LET rel == Head(rels)
         IN rebuild_incoming_fks(
                execute(s, Stmt("sql_create_fk", rel.table, <<rel.field.column>>,
                                create_index_name(rel.table, <<rel.field.column>>, "_fk"),
                                <<table, column>>, << >>, << >>)),
                Tail(rels), table, column)

alter_db_table(s, old_db_table, new_db_table) ==
    execute(s, Stmt("sql_rename_table", old_db_table, << >>, << >>, <<new_db_table>>,
                    << >>, << >>))

\* The field of a through model that points to the target model
reverse_field(through) ==
    through.local_fields[CHOOSE i \in 1..Len(through.local_fields) :
                            through.local_fields[i].name = "to"]

\* old_field.rel.through and new_field.rel.through and both auto_created, evaluated
\* left to right: "AttributeError" when a .rel that is read is None
both_auto_created(old_field, new_field) ==
    IF ~has_rel(old_field) THEN "AttributeError"
    ELSE IF old_field.rel.through = "" THEN "False"
    ELSE IF ~has_rel(new_field) THEN "AttributeError"
    ELSE IF new_field.rel.through = "" THEN "False"
    ELSE IF old_field.rel.auto_created /\ new_field.rel.auto_created THEN "True"
    ELSE "False"

\* drop_incoming_fks (line 436) and the condition of lines 498-509
pk_type_change(old_field, new_field) ==
    old_field.primary_key /\ new_field.primary_key /\ old_field.type # new_field.type

\* The condition of lines 621-648
became_pk(old_field, new_field) == ~old_field.primary_key /\ new_field.primary_key

\* Has unique been removed?
drop_removed_unique(s, table, old_field, new_field, strict) ==
    IF old_field.unique /\ (~new_field.unique
                            \/ (~old_field.primary_key /\ new_field.primary_key))
    THEN drop_found(s, strict, "sql_delete_unique", table,
           constraint_names(s.db, table, <<old_field.column>>,
                            "True", "None", "None", "None", "None"))
    ELSE s

\* Removed an index?
drop_removed_index(s, table, old_field, new_field, strict) ==
    IF old_field.db_index /\ ~new_field.db_index /\ ~old_field.unique
       /\ ~(~new_field.unique /\ old_field.unique)
    THEN drop_found(s, strict, "sql_delete_index", table,
           constraint_names(s.db, table, <<old_field.column>>,
                            "None", "None", "True", "None", "None"))
    ELSE s

\* drop_own_fk that checks the constraints it finds and drops none
drop_own_fk_checked_only(s, table, old_field, strict) ==
    IF has_rel(old_field) /\ strict
       /\ Len(constraint_names(s.db, table, <<old_field.column>>,
                               "None", "None", "None", "True", "None")) # 1
    THEN raise(s, "ValueError")
    ELSE s

\* Drop any FK constraints, we'll remake them later
drop_own_fk(s, table, old_field, strict) ==
    IF has_rel(old_field)
    THEN drop_found(s, strict, "sql_delete_fk", table,
           constraint_names(s.db, table, <<old_field.column>>,
                            "None", "None", "None", "True", "None"))
    ELSE s

\* Drop incoming FK constraints if we're a primary key and things are going to change
drop_incoming(s, old_field, new_field, rels) ==
    IF pk_type_change(old_field, new_field) THEN drop_incoming_fks(s, rels) ELSE s

\* Change check constraints?
drop_changed_check(s, table, old_field, new_field, strict) ==
    IF old_field.check # new_field.check /\ old_field.check # "None"
    THEN drop_found(s, strict, "sql_delete_check", table,
           constraint_names(s.db, table, <<old_field.column>>,
                            "None", "None", "None", "None", "True"))
    ELSE s

\* Have they renamed the column?
rename_column(s, table, old_field, new_field) ==
    IF old_field.column # new_field.column
    THEN execute(s, Stmt("sql_rename_column", table, <<old_field.column>>, << >>,
                         <<new_field.column>>, << >>, << >>))
    ELSE s

\* lines 594-596: the post-actions of the type change
apply_post_actions(s, table, new_field) ==
    execute_all(s, alter_column_type_sql(table, new_field.column, new_field.type).post)

\* Added a unique?
create_added_unique(s, table, old_field, new_field) ==
    IF ~old_field.unique /\ new_field.unique
    THEN execute(s, Stmt("sql_create_unique", table, <<new_field.column>>,
                         create_index_name(table, <<new_field.column>>, "_uniq"),
                         << >>, << >>, << >>))
    ELSE s

\* Added an index?
create_added_index(s, table, old_field, new_field) ==
    IF ~old_field.db_index /\ new_field.db_index /\ ~new_field.unique
       /\ ~(~old_field.unique /\ new_field.unique)
    THEN execute(s, sql_create_index(table, <<new_field.column>>, "_uniq"))
    ELSE s

\* Changed to become primary key? First, drop the current PK
drop_current_pk(s, table, old_field, new_field, strict) ==
    IF became_pk(old_field, new_field)
    THEN drop_found(s, strict, "sql_delete_pk", table,
           constraint_names(s.db, table, << >>,
                            "None", "True", "None", "None", "None"))
    ELSE s

\* Make the new one
create_new_pk(s, table, old_field, new_field) ==
    IF became_pk(old_field, new_field)
    THEN execute(s, Stmt("sql_create_pk", table, <<new_field.column>>,
                         create_index_name(table, <<new_field.column>>, "_pk"),
                         << >>, << >>, << >>))
    ELSE s

\* rels_to_update that forgets the related objects of a primary key whose type changes
rels_to_update_became_pk_only(old_field, new_field, rels) ==
    IF became_pk(old_field, new_field) THEN rels ELSE << >>

\* rels_to_update: extended at line 619 and again at line 647
rels_to_update(old_field, new_field, rels) ==
    (IF pk_type_change(old_field, new_field) THEN rels ELSE << >>)
    \o (IF became_pk(old_field, new_field) THEN rels ELSE << >>)

\* Does it have a foreign key?
create_own_fk(s, table, new_field) ==
    IF has_rel(new_field)
    THEN execute(s, Stmt("sql_create_fk", table, <<new_field.column>>,
                         create_index_name(table, <<new_field.column>>, "_fk"),
                         <<new_field.rel.to, new_field.rel.to_column>>, << >>, << >>))
    ELSE s

\* Rebuild FKs that pointed to us if we previously had to drop them
rebuild_incoming(s, table, old_field, new_field, rels) ==
    IF pk_type_change(old_field, new_field)
    THEN rebuild_incoming_fks(s, rels, table, new_field.column)
    ELSE s

\* Does it have check constraints we need to add?
create_changed_check(s, table, old_field, new_field) ==
    IF old_field.check # new_field.check /\ new_field.check # "None"
    THEN execute(s, Stmt("sql_create_check", table, <<new_field.column>>,
                         create_index_name(table, <<new_field.column>>, "_check"),
                         <<new_field.check>>, << >>, << >>))
    ELSE s

\* Reset connection if required
\* the connection reset applied whatever the dialect
close_if_persists_always(s) == close_connection(s)

close_if_persists(s) ==
    IF features.connection_persists_old_columns THEN close_connection(s) ELSE s

\* alter_column_field that drops the foreign key before the unique constraint
alter_column_field_fk_first(s, model, old_field, new_field, strict, rels) ==
    LET table == model.db_table
        s1 == drop_own_fk(s, table, old_field, strict)
        s2 == drop_removed_unique(s1, table, old_field, new_field, strict)
        s3 == drop_removed_index(s2, table, old_field, new_field, strict)
        s4 == drop_incoming(s3, old_field, new_field, rels)
        s5 == drop_changed_check(s4, table, old_field, new_field, strict)
        s6 == rename_column(s5, table, old_field, new_field)
        s7 == apply_actions(s6, table, new_field.column, alter_actions(old_field, new_field))
        s8 == apply_post_actions(s7, table, new_field)
        s9 == create_added_unique(s8, table, old_field, new_field)
        s10 == create_added_index(s9, table, old_field, new_field)
        s11 == drop_current_pk(s10, table, old_field, new_field, strict)
        s12 == create_new_pk(s11, table, old_field, new_field)
        s13 == alter_rel_types(s12, rels_to_update(old_field, new_field, rels))
        s14 == create_own_fk(s13, table, new_field)
        s15 == rebuild_incoming(s14, table, old_field, new_field, rels)
        s16 == create_changed_check(s15, table, old_field, new_field)
    IN close_if_persists(s16)

\* alter_column_field that drops the current primary key with the other drops
alter_column_field_pk_drop_first(s, model, old_field, new_field, strict, rels) ==
    LET table == model.db_table
        s1 == drop_removed_unique(s, table, old_field, new_field, strict)
        s2 == drop_removed_index(s1, table, old_field, new_field, strict)
        s3 == drop_own_fk(s2, table, old_field, strict)
        s4 == drop_incoming(s3, old_field, new_field, rels)
        s5 == drop_changed_check(s4, table, old_field, new_field, strict)
        s6 == drop_current_pk(s5, table, old_field, new_field, strict)
        s7 == rename_column(s6, table, old_field, new_field)
        s8 == apply_actions(s7, table, new_field.column, alter_actions(old_field, new_field))
        s9 == apply_post_actions(s8, table, new_field)
        s10 == create_added_unique(s9, table, old_field, new_field)
        s11 == create_added_index(s10, table, old_field, new_field)
        s12 == create_new_pk(s11, table, old_field, new_field)
        s13 == alter_rel_types(s12, rels_to_update(old_field, new_field, rels))
        s14 == create_own_fk(s13, table, new_field)
        s15 == rebuild_incoming(s14, table, old_field, new_field, rels)
        s16 == create_changed_check(s15, table, old_field, new_field)
    IN close_if_persists(s16)

\* lines 448-697: both fields have a column
alter_column_field(s, model, old_field, new_field, strict, rels) ==
    LET table == model.db_table
        s1 == drop_removed_unique(s, table, old_field, new_field, strict)
        s2 == drop_removed_index(s1, table, old_field, new_field, strict)
        s3 == drop_own_fk(s2, table, old_field, strict)
        s4 == drop_incoming(s3, old_field, new_field, rels)
        s5 == drop_changed_check(s4, table, old_field, new_field, strict)
        s6 == rename_column(s5, table, old_field, new_field)
        s7 == apply_actions(s6, table, new_field.column, alter_actions(old_field, new_field))
        s8 == apply_post_actions(s7, table, new_field)
        s9 == create_added_unique(s8, table, old_field, new_field)
        s10 == create_added_index(s9, table, old_field, new_field)
        s11 == drop_current_pk(s10, table, old_field, new_field, strict)
        s12 == create_new_pk(s11, table, old_field, new_field)
        s13 == alter_rel_types(s12, rels_to_update(old_field, new_field, rels))
        s14 == create_own_fk(s13, table, new_field)
        s15 == rebuild_incoming(s14, table, old_field, new_field, rels)
        s16 == create_changed_check(s15, table, old_field, new_field)
    IN close_if_persists(s16)

\* _alter_many_to_many: rename the through table, repoint the FK to the other side
\* (the nested alter_field is called without strict, and with the through
\* model, which nothing references)
alter_many_to_many(s, model, old_field, new_field, strict) ==
    LET old_through == through_model(model, old_field)
        new_through == through_model(model, new_field)
        s1 == alter_db_table(s, old_through.db_table, new_through.db_table)
    IN alter_column_field(s1, new_through, reverse_field(old_through),
                          reverse_field(new_through), FALSE, << >>)

alter_field(s, model, old_field, new_field, strict, rels) ==
    IF old_field.type = "None" /\ new_field.type = "None"
       /\ both_auto_created(old_field, new_field) = "AttributeError"
    THEN raise(s, "AttributeError")
    ELSE IF old_field.type = "None" /\ new_field.type = "None"
            /\ both_auto_created(old_field, new_field) = "True"
    THEN alter_many_to_many(s, model, old_field, new_field, strict)
    ELSE IF old_field.type = "None" \/ new_field.type = "None"
    THEN raise(s, "ValueError")
    ELSE alter_column_field(s, model, old_field, new_field, strict, rels)

----------------------------------------------------------------------------
(* The session: __enter__ and __exit__ *)

Exceptions == {"DatabaseError", "ValueError", "AttributeError", "Error"}

NoModel(t) == Model(t, << >>, << >>, << >>, << >>)

NoCall == [op |-> "", table |-> "", old |-> BaseField, new |-> BaseField,
           strict |-> FALSE, rels |-> << >>, start |-> 0, end |-> 0,
           old_together |-> << >>, new_together |-> << >>]

Call(op, table, old, new, strict, rels) ==
    [op |-> op, table |-> table, old |-> old, new |-> new, strict |-> strict,
     rels |-> rels, start |-> Len(trace), end |-> Len(trace),
     old_together |-> << >>, new_together |-> << >>]

TogetherCall(op, table, old_together, new_together) ==
    [Call(op, table, BaseField, BaseField, FALSE, << >>)
        EXCEPT !.old_together = old_together, !.new_together = new_together]

Features(rollback, fks, combined, persists, autoinc) ==
    [can_rollback_ddl |-> rollback, supports_foreign_keys |-> fks,
     supports_combined_alters |-> combined, connection_persists_old_columns |-> persists,
     autoinc_sql |-> autoinc, interprets_empty_strings_as_nulls |-> FALSE,
     supports_tablespaces |-> FALSE, pk_reported_unique |-> FALSE]

\* __enter__ that keeps the deferred list of the session before
EnterKeepsDeferred ==
    /\ session = "closed"
    /\ nsessions < MaxSessions
    /\ session' = "open"
    /\ nsessions' = nsessions + 1
    /\ trace' = Append(trace, Event("atomic_enter", NoSql, FALSE, "none"))
    /\ saved' = [db |-> db, models |-> models]
    /\ exc' = "none"
    /\ UNCHANGED <<collect_sql, features, deferred_sql, db, models, call, nops, naming, result, geometry_sql>>

\* __enter__: the deferred list starts empty and the atomic block is entered
Enter ==
    /\ session = "closed"
    /\ nsessions < MaxSessions
    /\ session' = "open"
    /\ nsessions' = nsessions + 1
    /\ deferred_sql' = << >>
    /\ trace' = Append(trace, Event("atomic_enter", NoSql, FALSE, "none"))
    /\ saved' = [db |-> db, models |-> models]
    /\ exc' = "none"
    /\ UNCHANGED <<collect_sql, features, db, models, call, nops, naming, result, geometry_sql>>

\* One editor is used for one session
EnterOnce == nsessions = 0 /\ Enter

\* __exit__ that exits the atomic block before it executes the deferred statements
ExitCleanAtomicFirst(fail) ==
    /\ session = "open"
    /\ exc = "none"
    /\ LET s == execute_all([Start(fail) EXCEPT !.trace =
                                 Append(@, Event("atomic_exit", NoSql, FALSE, "none"))],
                            deferred_sql)
       IN /\ fail <= s.n
          /\ trace' = s.trace
          /\ db' = s.db
          /\ exc' = s.exc
    /\ session' = "closed"
    /\ UNCHANGED <<collect_sql, features, deferred_sql, saved, models, call, nops, nsessions, naming, result, geometry_sql>>

\* __exit__(None, None, None): the deferred statements are executed, then the
\* atomic block is exited; a statement that raises ends __exit__ there
ExitClean(fail) ==
    /\ session = "open"
    /\ exc = "none"
    /\ LET s == execute_all(Start(fail), deferred_sql)
       IN /\ fail <= s.n
          /\ trace' = IF s.exc = "none"
                      THEN Append(s.trace, Event("atomic_exit", NoSql, FALSE, "none"))
                      ELSE s.trace
          /\ db' = s.db
          /\ exc' = s.exc
    /\ session' = "closed"
    /\ UNCHANGED <<collect_sql, features, deferred_sql, saved, models, call, nops, nsessions, naming, result, geometry_sql>>

\* __exit__ that executes the deferred statements whatever exc_type is
ExitErrorFlushes(exc_type) ==
    /\ session = "open"
    /\ exc_type # "none"
    /\ exc # "none" => exc_type = exc
    /\ LET s == execute_all(Start(0), deferred_sql)
       IN /\ trace' = Append(s.trace, Event("atomic_exit", NoSql, FALSE, exc_type))
          /\ db' = IF features.can_rollback_ddl THEN saved.db ELSE s.db
    /\ models' = IF features.can_rollback_ddl THEN saved.models ELSE models
    /\ exc' = exc_type
    /\ session' = "closed"
    /\ UNCHANGED <<collect_sql, features, deferred_sql, saved, call, nops, nsessions, naming, result, geometry_sql>>

\* __exit__(exc_type, exc_value, traceback) with an exception (the one an
\* operation raised, or one the body of the with statement raised itself): the
\* deferred statements are skipped and the atomic block is exited with the
\* exception, which rolls the transaction back where DDL can be rolled back
ExitError(exc_type) ==
    /\ session = "open"
    /\ exc_type # "none"
    /\ exc # "none" => exc_type = exc
    /\ trace' = Append(trace, Event("atomic_exit", NoSql, FALSE, exc_type))
    /\ db' = IF features.can_rollback_ddl THEN saved.db ELSE db
    /\ models' = IF features.can_rollback_ddl THEN saved.models ELSE models
    /\ exc' = exc_type
    /\ session' = "closed"
    /\ UNCHANGED <<collect_sql, features, deferred_sql, saved, call, nops, nsessions, naming, result, geometry_sql>>

\* What every operation called in the body of the session does with its result
Finish(s, c, new_models) ==
    /\ s.fail <= s.n
    /\ trace' = s.trace
    /\ db' = s.db
    /\ deferred_sql' = s.deferred
    /\ exc' = s.exc
    /\ models' = IF s.exc = "none" THEN new_models ELSE models
    /\ call' = [c EXCEPT !.end = Len(s.trace)]
    /\ nops' = nops + 1
    /\ geometry_sql' = s.geometry
    /\ UNCHANGED <<collect_sql, features, session, saved, nsessions, naming, result>>

CanCall == session = "open" /\ exc = "none"

----------------------------------------------------------------------------
(* The specification of an editor used over several sessions: the models the
   caller creates and the fields it adds *)

Tables == {"a", "b"}

ThroughTable(t) == IF t = "a" THEN "a_m2m" ELSE "b_m2m"

OtherTable(t) == IF t = "a" THEN "b" ELSE "a"

AllTables == Tables \cup {ThroughTable(t) : t \in Tables}

\* The connection features of four kinds of backend
Dialects ==
    {Features(TRUE, TRUE, TRUE, FALSE, FALSE),
     Features(FALSE, TRUE, FALSE, FALSE, TRUE),
     Features(TRUE, FALSE, FALSE, TRUE, FALSE),
     Features(FALSE, TRUE, TRUE, TRUE, FALSE)}

ManyToMany(to, through, auto_created) ==
    [BaseField EXCEPT !.name = "m", !.column = "m", !.type = "None",
                      !.internal_type = "ManyToManyField",
                      !.rel = M2M(to, through, auto_created)]

ForeignKey(column, to) ==
    [BaseField EXCEPT !.name = column, !.column = column, !.db_index = TRUE,
                      !.rel = FK(to, "id")]

\* The models create_model is called with
CreateModels ==
    UNION {
      {Model(t, <<IdField, ForeignKey("x", "a")>>, << >>, << >>, << >>),
       Model(t, <<IdField, ForeignKey("x", "b")>>, << >>, << >>, << >>),
       Model(t, <<IdField, [BaseField EXCEPT !.unique = TRUE]>>,
             <<<<"id", "x">>>>, <<<<"x", "id">>>>, << >>),
       Model(t, <<IdField, [BaseField EXCEPT !.db_index = TRUE, !.check = "c1"]>>,
             << >>, << >>, <<ManyToMany(OtherTable(t), ThroughTable(t), TRUE)>>)}
      : t \in Tables}

\* The fields add_field is called with (column y)
AddFields ==
    {[BaseField EXCEPT !.name = "y", !.column = "y", !.default = d, !.null = n,
                       !.blank = b, !.empty_strings_allowed = b]
        : d \in {"NOT_PROVIDED", "None", "d1", "callable_d1", "callable_None"},
          n \in BOOLEAN, b \in {FALSE}}
    \cup {[BaseField EXCEPT !.name = "y", !.column = "y", !.blank = TRUE,
                            !.empty_strings_allowed = TRUE],
          [ForeignKey("y", "b") EXCEPT !.null = TRUE, !.default = "None"],
          [BaseField EXCEPT !.name = "y", !.column = "y", !.db_index = TRUE,
                            !.default = "d1", !.check = "c1"],
          ManyToMany("b", "a_m2m", TRUE),
          ManyToMany("b", "a_b", FALSE)}

\* The caller's models after create_model(model)
WithModel(ms, model) ==
    [t \in AllTables |->
        IF t = model.db_table THEN model
        ELSE IF \E i \in 1..Len(model.local_many_to_many) :
                   model.local_many_to_many[i].rel.through = t
        THEN through_model(model, model.local_many_to_many[
                 CHOOSE i \in 1..Len(model.local_many_to_many) :
                     model.local_many_to_many[i].rel.through = t])
        ELSE ms[t]]

\* The caller's models after add_field(model, field)
WithField(ms, model, field) ==
    IF is_m2m(field)
    THEN IF field.rel.auto_created
         THEN [ms EXCEPT ![field.rel.through] = through_model(model, field),
                         ![model.db_table].local_many_to_many = Append(@, field)]
         ELSE [ms EXCEPT ![model.db_table].local_many_to_many = Append(@, field)]
    ELSE [ms EXCEPT ![model.db_table].local_fields = Append(@, field)]

CreateModel(model, fail) ==
    /\ CanCall
    /\ models[model.db_table] = NoModel(model.db_table)
    /\ Finish(create_model(Start(fail), model),
              Call("create_model", model.db_table, BaseField, BaseField, FALSE, << >>),
              WithModel(models, model))

AddField(t, field, fail) ==
    /\ CanCall
    /\ models[t] # NoModel(t)
    /\ \A i \in 1..Len(models[t].local_fields) : models[t].local_fields[i].name # field.name
    /\ models[t].local_many_to_many = << >>
    /\ Finish(add_field(Start(fail), models[t], field),
              Call("add_field", t, BaseField, field, FALSE, << >>),
              WithField(models, models[t], field))

Init ==
    /\ collect_sql \in BOOLEAN
    /\ features \in Dialects
    /\ session = "closed"
    /\ deferred_sql = << >>
    /\ trace = << >>
    /\ db = {}
    /\ models = [t \in AllTables |-> NoModel(t)]
    /\ saved = [db |-> {}, models |-> [t \in AllTables |-> NoModel(t)]]
    /\ exc = "none"
    /\ call = NoCall
    /\ nops = 0
    /\ nsessions = 0
    /\ naming = NoNaming
    /\ result = NoResult
    /\ geometry_sql = << >>

Next ==
    \/ EnterOnce
    \/ \E fail \in 0..MaxFail : ExitClean(fail)
    \/ \E exc_type \in Exceptions : ExitError(exc_type)
    \/ /\ nops < MaxOps
       /\ \E model \in CreateModels, fail \in 0..MaxFail : CreateModel(model, fail)
    \/ /\ nops < MaxOps
       /\ \E t \in Tables, field \in AddFields, fail \in 0..MaxFail : AddField(t, field, fail)

Spec == Init /\ [][Next]_vars

----------------------------------------------------------------------------
(* The specification of one editor object used for several sessions in turn,
   some of which end with an exception *)

NextSessions ==
    \/ Enter
    \/ \E fail \in 0..1 : ExitClean(fail)
    \/ \E exc_type \in Exceptions : ExitError(exc_type)
    \/ /\ nops < MaxOps
       /\ \E model \in CreateModels, fail \in 0..1 : CreateModel(model, fail)

SpecSessions == Init /\ [][NextSessions]_vars

----------------------------------------------------------------------------
(* alter_field called by the caller: old_field is the field the caller's
   model holds, the related objects are the foreign keys of the caller's
   other models to this one *)

RECURSIVE RelsOfFields(_, _, _)
RelsOfFields(t, fields, to) ==
    IF fields = << >> THEN << >>
    ELSE (IF Head(fields).rel.to = to /\ Head(fields).type # "None"
          THEN <<Rel(t, Head(fields))>> ELSE << >>)
         \o RelsOfFields(t, Tail(fields), to)

RECURSIVE RelsOfTables(_, _, _)
RelsOfTables(ms, tables, to) ==
    IF tables = << >> THEN << >>
    ELSE (IF Head(tables) \in DOMAIN ms
          THEN RelsOfFields(Head(tables), ms[Head(tables)].local_fields, to)
          ELSE << >>)
         \o RelsOfTables(ms, Tail(tables), to)

\* new_field.model._meta.get_all_related_objects()
get_all_related_objects(ms, table) == RelsOfTables(ms, SeqOfSet(DOMAIN ms), table)

AlterField(t, i, new_field, strict, fail) ==
    /\ CanCall
    /\ i \in 1..Len(models[t].local_fields)
    /\ LET old_field == models[t].local_fields[i]
           rels == get_all_related_objects(models, t)
       IN Finish(alter_field(Start(fail), models[t], old_field, new_field, strict, rels),
                 Call("alter_field", t, old_field, new_field, strict, rels),
                 [models EXCEPT ![t].local_fields[i] = new_field])

----------------------------------------------------------------------------
(* The specification of one alter_field call on an existing table: any old
   and new field, any number of referencing tables, and a database in which
   introspection finds k constraints of each kind that old_field implies *)

AlterTables == {TableNames[i] : i \in 1..(MaxRels + 1)}

\* The referencing tables: each holds a foreign key to table a
RelTables(n) == {TableNames[i] : i \in 2..(n + 1)}

MatchNames == <<"m1", "m2", "m3", "m4">>

Existing(table, column, kind, to, k) ==
    {Constraint(<<table, column, kind, MatchNames[j]>>, table, <<column>>, kind, to)
        : j \in 1..k}

\* What the database holds for a field of a table
ExistingFor(table, field, k) ==
    (IF field.primary_key THEN Existing(table, field.column, "primary_key", "", k)
     ELSE IF field.unique THEN Existing(table, field.column, "unique", "", k)
     ELSE {})
    \cup (IF field.db_index /\ ~field.unique
          THEN Existing(table, field.column, "index", "", k) ELSE {})
    \cup (IF has_rel(field)
          THEN Existing(table, field.column, "foreign_key", field.rel.to, k) ELSE {})
    \cup (IF field.check # "None"
          THEN Existing(table, field.column, "check", "", k) ELSE {})

RECURSIVE ExistingForAll(_, _, _)
ExistingForAll(table, fields, k) ==
    IF fields = << >> THEN {}
    ELSE ExistingFor(table, Head(fields), k) \cup ExistingForAll(table, Tail(fields), k)

\* The fields alter_field is called with as old_field (column x, type integer)
AlterOldFields ==
    {[BaseField EXCEPT !.unique = u[1], !.primary_key = u[2], !.db_index = ix,
                       !.rel = r, !.check = c, !.null = n, !.default = d]
        : u \in {<<FALSE, FALSE>>, <<TRUE, FALSE>>, <<TRUE, TRUE>>},
          ix \in BOOLEAN, r \in {NoRel, FK("t", "id")}, c \in {"None", "c1"},
          n \in BOOLEAN, d \in {"NOT_PROVIDED", "d1"}}

\* The fields alter_field may be called with as new_field
AlterAnyFields ==
    {[f EXCEPT !.column = col, !.type = ty, !.check = c]
        : f \in AlterOldFields, col \in {"x", "x2"}, ty \in {"integer", "bigint"},
          c \in {"None", "c1", "c2"}}

\* The fields alter_field is called with as new_field: the call changes what
\* constrains the column (with its type and name), or the column's type,
\* name, nullability and default
AlterNewFields(old_field) ==
    {g \in AlterAnyFields :
        \/ g.null = old_field.null /\ g.default = old_field.default
        \/ /\ g.unique = old_field.unique
           /\ g.primary_key = old_field.primary_key
           /\ g.db_index = old_field.db_index
           /\ g.rel = old_field.rel
           /\ g.check = old_field.check}

\* Table a with old_field (and a primary key of its own when old_field is
\* not one), and n tables whose column a_id references table a
AlterModels(old_field, n) ==
    [t \in AlterTables |->
        IF t = "a"
        THEN Model("a", IF old_field.primary_key THEN <<old_field>>
                        ELSE <<IdField, old_field>>, << >>, << >>, << >>)
        ELSE IF t \in RelTables(n)
        THEN Model(t, <<IdField, ForeignKey("a_id", "a")>>, << >>, << >>, << >>)
        ELSE NoModel(t)]

AlterDatabase(ms, k) ==
    UNION {ExistingForAll(t, ms[t].local_fields, k) : t \in DOMAIN ms}

\* A backend that executes, with combined alters, and one that collects, without
AlterSetups ==
    {[collect_sql |-> FALSE, features |-> Features(TRUE, TRUE, TRUE, FALSE, FALSE)],
     [collect_sql |-> TRUE, features |-> Features(TRUE, TRUE, FALSE, TRUE, FALSE)]}

InitAlter ==
    /\ \E setup \in AlterSetups :
          /\ collect_sql = setup.collect_sql
          /\ features = setup.features
    /\ session = "open"
    /\ deferred_sql = << >>
    /\ trace = <<Event("atomic_enter", NoSql, FALSE, "none")>>
    /\ \E old_field \in AlterOldFields, n \in {0, MaxRels}, k \in 0..MaxMatches :
          /\ models = AlterModels(old_field, n)
          /\ db = AlterDatabase(AlterModels(old_field, n), k)
    /\ saved = [db |-> db, models |-> models]
    /\ exc = "none"
    /\ call = NoCall
    /\ nops = 0
    /\ nsessions = 1
    /\ naming = NoNaming
    /\ result = NoResult
    /\ geometry_sql = << >>

AlterOnce ==
    /\ nops = 0
    /\ LET i == Len(models["a"].local_fields)
       IN \E new_field \in AlterNewFields(models["a"].local_fields[i]), strict \in BOOLEAN :
             AlterField("a", i, new_field, strict, 0)

NextAlter == AlterOnce

SpecAlter == InitAlter /\ [][NextAlter]_vars

----------------------------------------------------------------------------
(* The specification of a database that starts empty: over several sessions
   the caller creates models and alters their fields, one attribute at a
   time *)

OtherType(type) == IF type = "integer" THEN "bigint" ELSE "integer"

\* The fields alter_field is called with as new_field, for a field of table t
SchemaNewFields(t, old_field) ==
    {[old_field EXCEPT !.type = OtherType(old_field.type)],
     [old_field EXCEPT !.rel = IF has_rel(old_field) THEN NoRel
                               ELSE FK(OtherTable(t), "id")]}
    \cup (IF old_field.primary_key THEN {}
          ELSE {[old_field EXCEPT !.unique = ~old_field.unique],
                [old_field EXCEPT !.unique = TRUE, !.primary_key = TRUE,
                                  !.type = OtherType(old_field.type)]})

InitSchema ==
    /\ collect_sql \in BOOLEAN
    /\ features = Features(TRUE, TRUE, TRUE, FALSE, FALSE)
    /\ session = "closed"
    /\ deferred_sql = << >>
    /\ trace = << >>
    /\ db = {}
    /\ models = [t \in AllTables |-> NoModel(t)]
    /\ saved = [db |-> {}, models |-> [t \in AllTables |-> NoModel(t)]]
    /\ exc = "none"
    /\ call = NoCall
    /\ nops = 0
    /\ nsessions = 0
    /\ naming = NoNaming
    /\ result = NoResult
    /\ geometry_sql = << >>

NextSchema ==
    \/ Enter
    \/ ExitClean(0)
    \/ /\ nops < MaxSchemaOps
       /\ \E model \in CreateModels : CreateModel(model, 0)
    \/ /\ nops < MaxSchemaOps
       /\ \E t \in Tables : \E i \in 1..Len(models[t].local_fields) :
             \E new_field \in SchemaNewFields(t, models[t].local_fields[i]) :
                AlterField(t, i, new_field, FALSE, 0)

SpecSchema == InitSchema /\ [][NextSchema]_vars

----------------------------------------------------------------------------
(* The specification of one alter_field call with any pair of fields,
   column-backed or not *)

\* A field without a column that is not a relation (db_parameters type None)
ColumnlessField == [BaseField EXCEPT !.name = "v", !.column = "v", !.type = "None"]

\* The fields alter_field is called with as old_field and as new_field
CompatFields ==
    {BaseField,
     [BaseField EXCEPT !.type = "bigint"],
     ForeignKey("x", "b"),
     ManyToMany("b", "a_m2m", TRUE),
     ManyToMany("a", "a_m2m", TRUE),
     ManyToMany("b", "b_m2m", TRUE),
     ManyToMany("b", "a_b", FALSE),
     ColumnlessField}

CompatModels ==
    [t \in AllTables |->
        CASE t = "a" -> Model("a", <<IdField, BaseField>>, << >>, << >>,
                              <<ManyToMany("b", "a_m2m", TRUE)>>)
          [] t = "b" -> Model("b", <<IdField>>, << >>, << >>, << >>)
          [] t = "a_m2m" -> through_model(Model("a", << >>, << >>, << >>, << >>),
                                          ManyToMany("b", "a_m2m", TRUE))
          [] OTHER -> NoModel(t)]

InitCompat ==
    /\ collect_sql \in BOOLEAN
    /\ features = Features(TRUE, TRUE, TRUE, FALSE, FALSE)
    /\ session = "open"
    /\ deferred_sql = << >>
    /\ trace = <<Event("atomic_enter", NoSql, FALSE, "none")>>
    /\ models = CompatModels
    /\ \E k \in 0..MaxMatches : db = AlterDatabase(CompatModels, k)
    /\ saved = [db |-> db, models |-> models]
    /\ exc = "none"
    /\ call = NoCall
    /\ nops = 0
    /\ nsessions = 1
    /\ naming = NoNaming
    /\ result = NoResult
    /\ geometry_sql = << >>

\* alter_field(model, old_field, new_field, strict) with the fields the caller passes
AlterAnyField(t, old_field, new_field, strict) ==
    /\ CanCall
    /\ nops = 0
    /\ LET rels == get_all_related_objects(models, t)
       IN Finish(alter_field(Start(0), models[t], old_field, new_field, strict, rels),
                 Call("alter_field", t, old_field, new_field, strict, rels),
                 models)

NextCompat ==
    \E old_field \in CompatFields, new_field \in CompatFields, strict \in BOOLEAN :
        AlterAnyField("a", old_field, new_field, strict)

SpecCompat == InitCompat /\ [][NextCompat]_vars

----------------------------------------------------------------------------
(* The specification of one session in which the caller creates and deletes
   models and adds, alters and removes fields, on any dialect *)

RemoveAt(seq, i) == SubSeq(seq, 1, i - 1) \o SubSeq(seq, i + 1, Len(seq))

\* remove_field(model, field) with a column of the model that is not its primary key
RemoveField(t, i, fail) ==
    /\ CanCall
    /\ i \in 2..Len(models[t].local_fields)
    /\ LET field == models[t].local_fields[i]
       IN Finish(remove_field(Start(fail), models[t], field),
                 Call("remove_field", t, field, field, FALSE, << >>),
                 [models EXCEPT ![t].local_fields = RemoveAt(@, i)])

\* remove_field(model, field) with a many-to-many field of the model
RemoveManyToMany(t, i, fail) ==
    /\ CanCall
    /\ i \in 1..Len(models[t].local_many_to_many)
    /\ LET field == models[t].local_many_to_many[i]
       IN Finish(remove_field(Start(fail), models[t], field),
                 Call("remove_field", t, field, field, FALSE, << >>),
                 [models EXCEPT ![t].local_many_to_many = RemoveAt(@, i),
                                ![field.rel.through] =
                                    IF field.rel.auto_created
                                    THEN NoModel(field.rel.through) ELSE @])

\* delete_model(model) with a model no many-to-many field goes through
DeleteModel(t, fail) ==
    /\ CanCall
    /\ models[t] # NoModel(t)
    /\ models[t].local_many_to_many = << >>
    /\ Finish(delete_model(Start(fail), models[t]),
              Call("delete_model", t, BaseField, BaseField, FALSE, << >>),
              [models EXCEPT ![t] = NoModel(t)])

\* The cursor.execute call that may raise in this specification
OpsFail == {0, 1}

NextOps ==
    \/ EnterOnce
    \/ ExitClean(0)
    \/ /\ nops < MaxEditorOps
       /\ \E model \in CreateModels, fail \in OpsFail : CreateModel(model, fail)
    \/ /\ nops < MaxEditorOps
       /\ \E t \in Tables, field \in AddFields, fail \in OpsFail : AddField(t, field, fail)
    \/ /\ nops < MaxEditorOps
       /\ \E t \in Tables, fail \in OpsFail :
             \E i \in 2..Len(models[t].local_fields) : RemoveField(t, i, fail)
    \/ /\ nops < MaxEditorOps
       /\ \E t \in Tables, fail \in OpsFail :
             \E i \in 1..Len(models[t].local_many_to_many) : RemoveManyToMany(t, i, fail)
    \/ /\ nops < MaxEditorOps
       /\ \E t \in Tables, fail \in OpsFail : DeleteModel(t, fail)
    \/ /\ nops < MaxEditorOps
       /\ \E t \in Tables, fail \in OpsFail :
             \E i \in 1..Len(models[t].local_fields) :
                \E new_field \in SchemaNewFields(t, models[t].local_fields[i]) :
                   AlterField(t, i, new_field, FALSE, fail)

SpecOps == Init /\ [][NextOps]_vars

----------------------------------------------------------------------------
(* The specification of one alter_unique_together or alter_index_together
   call on an existing table *)

TogetherModel ==
    Model("a", <<IdField, BaseField, [BaseField EXCEPT !.name = "y", !.column = "y"]>>,
          << >>, << >>, << >>)

\* The field groups the caller's lists are made of
TogetherGroups == {<<"x", "y">>, <<"y", "x">>, <<"id", "x">>}

\* The lists passed as old and new unique_together / index_together
Togethers == UNION {[1..n -> TogetherGroups] : n \in 0..MaxGroups}

\* What the database holds for the groups: found[g] unique constraints and
\* as many indexes on the columns of group g
TogetherDatabase(found) ==
    UNION {{Constraint(<<"a">> \o ColumnsOf(TogetherModel, g) \o <<kind, MatchNames[j]>>,
                       "a", ColumnsOf(TogetherModel, g), kind, "")
               : j \in 1..found[g], kind \in {"unique", "index"}}
           : g \in TogetherGroups}

InitTogether ==
    /\ collect_sql \in BOOLEAN
    /\ features = Features(TRUE, TRUE, TRUE, FALSE, FALSE)
    /\ session = "open"
    /\ deferred_sql = << >>
    /\ trace = <<Event("atomic_enter", NoSql, FALSE, "none")>>
    /\ models = [t \in AllTables |-> IF t = "a" THEN TogetherModel ELSE NoModel(t)]
    /\ \E found \in [TogetherGroups -> 0..MaxMatches] : db = TogetherDatabase(found)
    /\ saved = [db |-> db, models |-> models]
    /\ exc = "none"
    /\ call = NoCall
    /\ nops = 0
    /\ nsessions = 1
    /\ naming = NoNaming
    /\ result = NoResult
    /\ geometry_sql = << >>

AlterUniqueTogether(t, old_unique_together, new_unique_together) ==
    /\ CanCall
    /\ LET olds == tuples(old_unique_together)
           news == tuples(new_unique_together)
       IN \E deleted \in Orders(difference(olds, news)),
             created \in Orders(difference(news, olds)) :
             Finish(alter_unique_together(Start(0), models[t], deleted, created),
                    TogetherCall("alter_unique_together", t,
                                 old_unique_together, new_unique_together),
                    [models EXCEPT ![t].unique_together = new_unique_together])

AlterIndexTogether(t, old_index_together, new_index_together) ==
    /\ CanCall
    /\ LET olds == tuples(old_index_together)
           news == tuples(new_index_together)
       IN \E deleted \in Orders(difference(olds, news)),
             created \in Orders(difference(news, olds)) :
             Finish(alter_index_together(Start(0), models[t], deleted, created),
                    TogetherCall("alter_index_together", t,
                                 old_index_together, new_index_together),
                    [models EXCEPT ![t].index_together = new_index_together])

NextTogether ==
    \/ /\ nops = 0
       /\ \E old \in Togethers, new \in Togethers : AlterUniqueTogether("a", old, new)
    \/ /\ nops = 0
       /\ \E old \in Togethers, new \in Togethers : AlterIndexTogether("a", old, new)

SpecTogether == InitTogether /\ [][NextTogether]_vars

----------------------------------------------------------------------------
(* _create_index_name, character by character.  A string is a sequence of
   characters; "a" stands for a letter, "1" for a digit. *)

Min(a, b) == IF a <= b THEN a ELSE b

Max(a, b) == IF a >= b THEN a ELSE b

Digits == {"1"}

\* str[:n], for a negative n too
slice_to(str, n) ==
    IF n >= 0 THEN SubSeq(str, 1, Min(n, Len(str)))
    ELSE SubSeq(str, 1, Max(Len(str) + n, 0))

\* str.replace('"', '').replace('.', '_')
RECURSIVE sanitize(_)
sanitize(str) ==
    IF str = << >> THEN << >>
    ELSE (IF Head(str) = "\"" THEN << >>
          ELSE IF Head(str) = "." THEN <<"_">>
          ELSE <<Head(str)>>) \o sanitize(Tail(str))

\* ','.join(column_names)
RECURSIVE join(_)
join(column_names) ==
    IF Len(column_names) = 1 THEN Head(column_names)
    ELSE Head(column_names) \o <<",">> \o join(Tail(column_names))

\* The hexadecimal strings a hash is printed as
HexStrings == <<<<"1">>, <<"f">>, <<"f", "1">>, <<"1", "f">>>>

\* '%x' % abs(hash((table_name, joined))): a function of its arguments and of
\* the hash seed of the process
hash_hex(seed, table_name, joined) ==
    HexStrings[((seed + Len(table_name) + Len(joined)) % Len(HexStrings)) + 1]

\* Length of hashlib.md5(...).hexdigest()
Md5HexLen == 32

\* hashlib.md5(force_bytes(str)).hexdigest(): hexadecimal digits that depend on str
hexdigest(str) == [i \in 1..Md5HexLen |-> IF (Len(str) + i) % 2 = 0 THEN "1" ELSE "f"]

\* BaseDatabaseCreation._digest(column): a short stable hash of the column name
digest(column) == IF Len(column) % 2 = 0 THEN <<"1", "f">> ELSE <<"f", "1">>

\* truncate_name(name, length): the name truncated to the length
truncate_name(name, length) == IF Len(name) <= length THEN name ELSE SubSeq(name, 1, length)

\* self.connection.ops.max_name_length(): the dialect's maximum identifier length
max_name_length == features.max_index_name_length

\* index_unique_name = '_%x' % abs(hash((table_name, ','.join(column_names))))
index_unique_name(seed, table_name, column_names) ==
    <<"_">> \o hash_hex(seed, table_name, join(column_names))

\* part = '_%s%s%s' % (column_names[0], index_unique_name, suffix)
name_part(column_names, unique, suffix) == <<"_">> \o column_names[1] \o unique \o suffix

\* If the index name is too long, truncate it
truncate_table(index_name, table_name, part, max) ==
    IF Len(index_name) > max THEN slice_to(table_name, max - Len(part)) \o part
    ELSE index_name

\* It shouldn't start with an underscore
strip_underscore(index_name) ==
    IF index_name[1] = "_" THEN Tail(index_name) ELSE index_name

\* The name left over length
hash_down_never(index_name, max) == index_name

\* If it's STILL too long, just hash it down
hash_down(index_name, max) ==
    IF Len(index_name) > max THEN slice_to(hexdigest(index_name), max) ELSE index_name

\* It can't start with a number, so prepend D if we need to
prefix_digit(index_name) ==
    IF index_name[1] \in Digits THEN <<"D">> \o slice_to(index_name, -1) ELSE index_name

\* The name of a multi-column or suffixed index
long_index_name(table_name, column_names, unique, suffix, max) ==
    prefix_digit(hash_down(strip_underscore(
        truncate_table(sanitize(table_name \o <<"_">> \o column_names[1] \o unique \o suffix),
                       table_name, name_part(column_names, unique, suffix), max)), max))

_create_index_name(table, column_names, suffix, seed) ==
    IF Len(column_names) = 1 /\ suffix = << >>
    THEN truncate_name(table \o <<"_">> \o digest(column_names[1]), max_name_length)
    ELSE long_index_name(sanitize(table), column_names,
                         index_unique_name(seed, sanitize(table), column_names),
                         suffix, features.max_index_name_length)

TableChars == {"a", "1", "_", "."}

\* The table names, column lists and suffixes _create_index_name is called with
NameTables == UNION {[1..n -> TableChars] : n \in 1..MaxTableLen}

NameColumns == {<<"a">>, <<"_">>, <<"\"", "a">>, <<"1", "a">>}

NameColumnLists == {<<c>> : c \in NameColumns} \cup {<<c, <<"a">>>> : c \in NameColumns}

NameSuffixes == {<< >>, <<"_", "a">>}

\* The features of a dialect whose max_index_name_length is max
NameFeatures(max) ==
    [k \in DOMAIN Features(TRUE, TRUE, TRUE, FALSE, FALSE) \cup {"max_index_name_length"} |->
        IF k = "max_index_name_length" THEN max
        ELSE Features(TRUE, TRUE, TRUE, FALSE, FALSE)[k]]

InitNames ==
    /\ collect_sql = FALSE
    /\ \E max \in 1..MaxNameLen : features = NameFeatures(max)
    /\ session = "closed"
    /\ deferred_sql = << >>
    /\ trace = << >>
    /\ db = {}
    /\ models = [t \in AllTables |-> NoModel(t)]
    /\ saved = [db |-> {}, models |-> models]
    /\ exc = "none"
    /\ call = NoCall
    /\ nops = 0
    /\ nsessions = 0
    /\ naming \in [table : NameTables, column_names : NameColumnLists,
                   suffix : NameSuffixes, seed : 0..(Len(HexStrings) - 1),
                   returned : {<< >>}]
    /\ result = NoResult
    /\ geometry_sql = << >>

\* One call of _create_index_name(model, column_names, suffix)
CreateIndexName ==
    /\ Len(naming.returned) < 2
    /\ naming' = [naming EXCEPT !.returned =
                     Append(@, _create_index_name(naming.table, naming.column_names,
                                                  naming.suffix, naming.seed))]
    /\ UNCHANGED <<collect_sql, features, session, deferred_sql, trace, db, saved,
                   exc, models, call, nops, nsessions, result, geometry_sql>>

NextNames == CreateIndexName

SpecNames == InitNames /\ [][NextNames]_vars

----------------------------------------------------------------------------
(* The specification of one create_model call with a model that may have
   column-less fields and many-to-many fields through explicit models *)

CreateSecondFields ==
    {BaseField,
     [BaseField EXCEPT !.db_index = TRUE, !.check = "c1"],
     ForeignKey("x", "b"),
     [ColumnlessField EXCEPT !.db_index = TRUE, !.rel = FK("b", "id")]}

CreateManyToManys(t) ==
    {<< >>,
     <<ManyToMany(OtherTable(t), ThroughTable(t), TRUE)>>,
     <<ManyToMany(OtherTable(t), "a_b", FALSE)>>,
     <<ManyToMany(OtherTable(t), ThroughTable(t), TRUE), ManyToMany(OtherTable(t), "a_b", FALSE)>>,
     <<ManyToMany(OtherTable(t), "a_b", FALSE), ManyToMany(OtherTable(t), ThroughTable(t), TRUE)>>}

CreateAnyModels ==
    {Model(t, <<IdField, field>>, << >>, << >>, m2ms)
        : t \in Tables, field \in CreateSecondFields,
          m2ms \in CreateManyToManys("a") \cup CreateManyToManys("b")}

NextCreate ==
    \/ EnterOnce
    \/ /\ nops = 0
       /\ \E model \in CreateAnyModels : CreateModel(model, 0)

SpecCreate == Init /\ [][NextCreate]_vars

----------------------------------------------------------------------------
(* The Spatialite editor: SpatialiteSchemaEditor.delete_model and remove_field.
   Its parent class, the sqlite3 DatabaseSchemaEditor, is taken to do what the
   base editor does. *)

is_geometry(field) == field.internal_type = "GeometryField"

\* A GeometryField (spatial_index defaults to True)
GeometryField(name, type) ==
    [BaseField EXCEPT !.name = name, !.column = name, !.type = type,
                      !.internal_type = "GeometryField", !.spatial_index = TRUE]

\* What column_sql appends to self.geometry_sql for a geometry field
geometry_column_sql(model, field) ==
    <<Stmt("sql_add_geometry_column", model.db_table, <<field.column>>,
           << >>, << >>, << >>, << >>)>>
    \o (IF field.spatial_index
        THEN <<Stmt("sql_add_spatial_index", model.db_table, <<field.column>>,
                    << >>, << >>, << >>, << >>)>>
        ELSE << >>)

\* self.geometry_sql.append(...) by an operation that is still running
queue_geometry(s, sqls) ==
    IF s.exc # "none" THEN s ELSE [s EXCEPT !.geometry = @ \o sqls]

\* The calls of column_sql in the loop over model._meta.local_fields
RECURSIVE queue_all_geometry(_, _, _)
queue_all_geometry(s, model, fields) ==
    IF fields = << >> THEN s
    ELSE queue_all_geometry(
             IF is_geometry(Head(fields))
             THEN queue_geometry(s, geometry_column_sql(model, Head(fields)))
             ELSE s,
             model, Tail(fields))

\* for sql in self.geometry_sql: self.execute(sql); self.geometry_sql = []
run_geometry_sql(s) ==
    LET s1 == execute_all(s, s.geometry)
    IN IF s1.exc # "none" THEN s1 ELSE [s1 EXCEPT !.geometry = << >>]


remove_geometry_metadata(s, model, field) ==
    execute(execute(s, Stmt("sql_remove_geometry_metadata", model.db_table, <<field.column>>,
                            << >>, << >>, << >>, << >>)),
            Stmt("sql_drop_spatial_index", model.db_table, <<field.column>>,
                 << >>, << >>, << >>, << >>))

\* for field in model._meta.local_fields: if isinstance(field, GeometryField): ...
RECURSIVE remove_all_geometry_metadata(_, _, _)
remove_all_geometry_metadata(s, model, fields) ==
    IF fields = << >> THEN s
    ELSE remove_all_geometry_metadata(
             IF is_geometry(Head(fields)) THEN remove_geometry_metadata(s, model, Head(fields))
             ELSE s,
             model, Tail(fields))

\* super(SpatialiteSchemaEditor, self).delete_model(model)
sqlite3_delete_model(s, model) == delete_model(s, model)

\* super(SpatialiteSchemaEditor, self).remove_field(model, field)
sqlite3_remove_field(s, model, field) == remove_field(s, model, field)

\* delete_model that drops the table before it removes the metadata
spatialite_delete_model_table_first(s, model) ==
    remove_all_geometry_metadata(sqlite3_delete_model(s, model), model, model.local_fields)

spatialite_delete_model(s, model) ==
    sqlite3_delete_model(remove_all_geometry_metadata(s, model, model.local_fields), model)

\* The column_sql call of the parent's remove_field (schema.py line 415) on a
\* geometry field that has a column type: it appends to self.geometry_sql
remove_field_column_sql(s, model, field) ==
    IF is_geometry(field) /\ field.type # "None"
    THEN queue_geometry(s, geometry_column_sql(model, field))
    ELSE s

spatialite_remove_field(s, model, field) ==
    sqlite3_remove_field(
        remove_field_column_sql(
            IF is_geometry(field) THEN remove_geometry_metadata(s, model, field) ELSE s,
            model, field),
        model, field)

\* The fields for which column_sql returns a definition
RECURSIVE without_geometry(_)
without_geometry(fields) ==
    IF fields = << >> THEN << >>
    ELSE (IF is_geometry(Head(fields)) THEN << >> ELSE <<Head(fields)>>)
         \o without_geometry(Tail(fields))

\* super(SpatialiteSchemaEditor, self).create_model(model): the loop over the
\* fields calls column_sql, which queues the geometry statements and returns
\* (None, None) for a geometry field, so that the field is skipped
sqlite3_create_model(s, model) ==
    create_model(queue_all_geometry(s, model, model.local_fields),
                 [model EXCEPT !.local_fields = without_geometry(@)])

spatialite_create_model(s, model) == run_geometry_sql(sqlite3_create_model(s, model))

\* super(SpatialiteSchemaEditor, self).add_field(model, field)
sqlite3_add_field(s, model, field) == add_field(s, model, field)

spatialite_add_field(s, model, field) ==
    IF is_geometry(field)
    THEN run_geometry_sql(queue_geometry(s, geometry_column_sql(model, field)))
    ELSE sqlite3_add_field(s, model, field)

\* connection.SchemaEditorClass
EditorClasses == {"BaseDatabaseSchemaEditor", "SpatialiteSchemaEditor"}

SpatialFeatures(class) ==
    [k \in DOMAIN Features(TRUE, TRUE, TRUE, FALSE, FALSE) \cup {"editor"} |->
        IF k = "editor" THEN class
        ELSE Features(TRUE, TRUE, TRUE, FALSE, FALSE)[k]]

\* The fields a model of the caller has after its primary key
SpatialFieldLists ==
    {<<GeometryField("g", "POINT")>>,
     <<GeometryField("g", "None")>>,
     <<BaseField>>,
     <<GeometryField("g", "POINT"), BaseField>>,
     <<BaseField, GeometryField("g", "POINT"), GeometryField("h", "None")>>}

SpatialModels(t) == {Model(t, <<IdField>> \o fs, << >>, << >>, << >>) : fs \in SpatialFieldLists}

\* A session on tables that exist, some of them with geometry columns
InitSpatial ==
    /\ collect_sql \in BOOLEAN
    /\ features \in {SpatialFeatures(class) : class \in EditorClasses}
    /\ session = "closed"
    /\ deferred_sql = << >>
    /\ trace = << >>
    /\ models \in {[t \in AllTables |-> IF t = "a" THEN ma ELSE IF t = "b" THEN mb ELSE NoModel(t)] :
                      ma \in SpatialModels("a"), mb \in SpatialModels("b")}
    /\ db = {Constraint(<<t, "id", "inline_pk">>, t, <<"id">>, "primary_key", "") : t \in Tables}
    /\ saved = [db |-> db, models |-> models]
    /\ exc = "none"
    /\ call = NoCall
    /\ nops = 0
    /\ nsessions = 0
    /\ naming = NoNaming
    /\ result = NoResult
    /\ geometry_sql = << >>

\* editor.delete_model(model) on the editor the connection gives
EditorDeleteModel(t, fail) ==
    /\ CanCall
    /\ models[t] # NoModel(t)
    /\ Finish(IF features.editor = "SpatialiteSchemaEditor"
              THEN spatialite_delete_model(Start(fail), models[t])
              ELSE delete_model(Start(fail), models[t]),
              Call("delete_model", t, BaseField, BaseField, FALSE, << >>),
              [models EXCEPT ![t] = NoModel(t)])

\* editor.remove_field(model, field) with a column that is not the primary key
EditorRemoveField(t, i, fail) ==
    /\ CanCall
    /\ i \in 2..Len(models[t].local_fields)
    /\ LET field == models[t].local_fields[i]
       IN Finish(IF features.editor = "SpatialiteSchemaEditor"
                 THEN spatialite_remove_field(Start(fail), models[t], field)
                 ELSE remove_field(Start(fail), models[t], field),
                 Call("remove_field", t, field, field, FALSE, << >>),
                 [models EXCEPT ![t].local_fields = RemoveAt(@, i)])

NextSpatial ==
    \/ EnterOnce
    \/ ExitClean(0)
    \/ /\ nops < MaxEditorOps
       /\ \E t \in Tables, fail \in 0..MaxFail : EditorDeleteModel(t, fail)
    \/ /\ nops < MaxEditorOps
       /\ \E t \in Tables, fail \in 0..MaxFail :
             \E i \in 2..Len(models[t].local_fields) : EditorRemoveField(t, i, fail)

SpecSpatial == InitSpatial /\ [][NextSpatial]_vars

----------------------------------------------------------------------------
(* The specification of one session of the Spatialite editor on a database
   that holds table a: the caller creates table b, adds and removes fields and
   deletes models, and any statement may raise *)

\* The fields a model of the caller has after its primary key
GeometryFieldLists ==
    {<<[GeometryField("g", ty) EXCEPT !.spatial_index = ix]>> \o rest
        : ty \in {"POINT", "None"}, ix \in BOOLEAN,
          rest \in {<< >>, <<BaseField>>,
                    <<[GeometryField("h", "None") EXCEPT !.spatial_index = FALSE]>>}}
    \cup {<<BaseField>>}

GeometryModels(t) ==
    {Model(t, <<IdField>> \o fs, << >>, << >>, << >>) : fs \in GeometryFieldLists}

\* The fields add_field is called with (column y)
GeometryAddFields ==
    {[GeometryField("y", ty) EXCEPT !.spatial_index = ix]
        : ty \in {"POINT", "None"}, ix \in BOOLEAN}
    \cup {[BaseField EXCEPT !.name = "y", !.column = "y", !.null = TRUE]}

InitGeometry ==
    /\ collect_sql = FALSE
    /\ features = SpatialFeatures("SpatialiteSchemaEditor")
    /\ session = "closed"
    /\ deferred_sql = << >>
    /\ trace = << >>
    /\ models \in {[t \in AllTables |-> IF t = "a" THEN ma ELSE NoModel(t)] :
                      ma \in GeometryModels("a")}
    /\ db = {Constraint(<<"a", "id", "inline_pk">>, "a", <<"id">>, "primary_key", "")}
    /\ saved = [db |-> db, models |-> models]
    /\ exc = "none"
    /\ call = NoCall
    /\ nops = 0
    /\ nsessions = 0
    /\ naming = NoNaming
    /\ result = NoResult
    /\ geometry_sql = << >>

\* editor.create_model(model) on the Spatialite editor
GeoCreateModel(model, fail) ==
    /\ CanCall
    /\ models[model.db_table] = NoModel(model.db_table)
    /\ Finish(spatialite_create_model(Start(fail), model),
              Call("create_model", model.db_table, BaseField, BaseField, FALSE, << >>),
              [models EXCEPT ![model.db_table] = model])

\* editor.add_field(model, field) on the Spatialite editor
GeoAddField(t, field, fail) ==
    /\ CanCall
    /\ models[t] # NoModel(t)
    /\ \A i \in 1..Len(models[t].local_fields) : models[t].local_fields[i].name # field.name
    /\ Finish(spatialite_add_field(Start(fail), models[t], field),
              Call("add_field", t, field, field, FALSE, << >>),
              [models EXCEPT ![t].local_fields = Append(@, field)])

NextGeometry ==
    \/ EnterOnce
    \/ ExitClean(0)
    \/ /\ nops < MaxEditorOps
       /\ \E model \in GeometryModels("b"), fail \in 0..MaxFail :
             GeoCreateModel(model, fail)
    \/ /\ nops < MaxEditorOps
       /\ \E t \in Tables, field \in GeometryAddFields, fail \in 0..MaxFail :
             GeoAddField(t, field, fail)
    \/ /\ nops < MaxEditorOps
       /\ \E t \in Tables, fail \in 0..MaxFail : EditorDeleteModel(t, fail)
    \/ /\ nops < MaxEditorOps
       /\ \E t \in Tables, fail \in 0..MaxFail :
             \E i \in 2..Len(models[t].local_fields) : EditorRemoveField(t, i, fail)

SpecGeometry == InitGeometry /\ [][NextGeometry]_vars

----------------------------------------------------------------------------
(* _constraint_names called with any arguments, on a table for which
   introspection reports any few constraints *)

\* column_names as the caller passes it: None, or a list
NoColumns == [given |-> FALSE, names |-> << >>]

Columns(names) == [given |-> TRUE, names |-> names]

\* line 768: column_names = list(column_names) if column_names else None
_constraint_names(d, table, column_names, unique, primary_key, index, foreign_key, check) ==
    constraint_names(d, table,
                     IF column_names.given /\ column_names.names # << >>
                     THEN column_names.names ELSE << >>,
                     unique, primary_key, index, foreign_key, check)

ConstraintKinds == {"unique", "primary_key", "index", "foreign_key", "check"}

\* The constraints the table may hold, on two columns in either order
IntrospectConstraints ==
    {Constraint(<<kind>> \o columns, "a", columns, kind,
                IF kind = "foreign_key" THEN "b" ELSE "")
        : kind \in ConstraintKinds, columns \in {<<"x", "y">>, <<"y", "x">>}}

IntrospectDatabases ==
    {d \in SUBSET IntrospectConstraints : Cardinality(d) <= MaxConstraints}

\* A filter argument: None, True or False
Flags == {"None", "True", "False"}

ColumnArgs ==
    {NoColumns, Columns(<< >>), Columns(<<"x">>), Columns(<<"x", "y">>), Columns(<<"y", "x">>)}

InitIntrospect ==
    /\ collect_sql = FALSE
    /\ features \in {[Features(TRUE, TRUE, TRUE, FALSE, FALSE) EXCEPT !.pk_reported_unique = p]
                        : p \in BOOLEAN}
    /\ session = "closed"
    /\ deferred_sql = << >>
    /\ trace = << >>
    /\ db \in IntrospectDatabases
    /\ models = [t \in AllTables |-> NoModel(t)]
    /\ saved = [db |-> {}, models |-> models]
    /\ exc = "none"
    /\ call = NoCall
    /\ nops = 0
    /\ nsessions = 0
    /\ naming = NoNaming
    /\ result = NoResult
    /\ geometry_sql = << >>

\* One call of _constraint_names(model, column_names, unique, primary_key, index,
\* foreign_key, check) with the model of table a
ConstraintNames(column_names, unique, primary_key, index, foreign_key, check) ==
    /\ result' = [of |-> "_constraint_names",
                  args |-> [column_names |-> column_names, unique |-> unique,
                            primary_key |-> primary_key, index |-> index,
                            foreign_key |-> foreign_key, check |-> check],
                  value |-> _constraint_names(db, "a", column_names, unique, primary_key,
                                              index, foreign_key, check)]
    /\ UNCHANGED <<collect_sql, features, session, deferred_sql, trace, db, saved,
                   exc, models, call, nops, nsessions, naming, geometry_sql>>

NextIntrospect ==
    /\ result = NoResult
    /\ \E column_names \in ColumnArgs, unique \in Flags, primary_key \in Flags,
          index \in Flags, foreign_key \in Flags, check \in Flags :
          ConstraintNames(column_names, unique, primary_key, index, foreign_key, check)

SpecIntrospect == InitIntrospect /\ [][NextIntrospect]_vars

----------------------------------------------------------------------------
(* column_sql called with any field, on any dialect *)

ColumnFeatures ==
    {[Features(TRUE, TRUE, TRUE, FALSE, FALSE)
         EXCEPT !.interprets_empty_strings_as_nulls = e, !.supports_tablespaces = ts]
        : e \in BOOLEAN, ts \in BOOLEAN}

ColumnFields ==
    {[BaseField EXCEPT !.type = ty, !.null = n, !.unique = u[1], !.primary_key = u[2],
                       !.default = d, !.blank = b, !.empty_strings_allowed = e,
                       !.db_tablespace = ts]
        : ty \in {"None", "integer"}, n \in BOOLEAN,
          u \in {<<FALSE, FALSE>>, <<TRUE, FALSE>>, <<TRUE, TRUE>>},
          d \in {"NOT_PROVIDED", "None", "d1", "callable_d1", "callable_None"},
          b \in BOOLEAN, e \in BOOLEAN, ts \in {"", "ts"}}

ColumnModels == {[Model("a", << >>, << >>, << >>, << >>) EXCEPT !.db_tablespace = ts]
                    : ts \in {"", "ts"}}

InitColumn ==
    /\ collect_sql = FALSE
    /\ features \in ColumnFeatures
    /\ session = "closed"
    /\ deferred_sql = << >>
    /\ trace = << >>
    /\ db = {}
    /\ models = [t \in AllTables |-> NoModel(t)]
    /\ saved = [db |-> {}, models |-> models]
    /\ exc = "none"
    /\ call = NoCall
    /\ nops = 0
    /\ nsessions = 0
    /\ naming = NoNaming
    /\ result = NoResult
    /\ geometry_sql = << >>

\* One call of column_sql(model, field, include_default)
ColumnSql(model, field, include_default) ==
    /\ result' = [of |-> "column_sql",
                  args |-> [model |-> model, field |-> field,
                            include_default |-> include_default],
                  value |-> column_sql(model, field, include_default)]
    /\ UNCHANGED <<collect_sql, features, session, deferred_sql, trace, db, saved,
                   exc, models, call, nops, nsessions, naming, geometry_sql>>

NextColumn ==
    /\ result = NoResult
    /\ \E model \in ColumnModels, field \in ColumnFields, include_default \in BOOLEAN :
          ColumnSql(model, field, include_default)

SpecColumn == InitColumn /\ [][NextColumn]_vars

----------------------------------------------------------------------------
(* The PostgreSQL editor: the companion '_like' index and the
   _alter_column_type_sql hook.  Its parent class, the editor of
   django.db.backends.base.schema, is taken to do what the spec's alter_field
   procedure says, with the hook called when the column type changes. *)

\* A field with the db_collation attribute the PostgreSQL editor reads
PgField(internal_type, type, db_index, unique, primary_key, db_collation) ==
    [k \in DOMAIN BaseField \cup {"db_collation"} |->
        CASE k = "internal_type" -> internal_type
          [] k = "type" -> type
          [] k = "db_index" -> db_index
          [] k = "unique" -> unique
          [] k = "primary_key" -> primary_key
          [] k = "db_collation" -> db_collation
          [] OTHER -> BaseField[k]]

\* db_type.startswith(prefix), for the column types of the model
starts_with(db_type, prefix) ==
    CASE prefix = "varchar" -> db_type \in {"varchar(20)", "varchar(20)[]"}
      [] prefix = "text" -> db_type \in {"text", "text[]"}
      [] prefix = "citext" -> db_type \in {"citext"}
      [] OTHER -> FALSE

\* "[" in db_type
has_bracket(db_type) == db_type \in {"varchar(20)[]", "text[]"}

\* _is_collation_deterministic: collisdeterministic of the row of pg_collation,
\* None when there is no row
is_collation_deterministic(collation_name) ==
    CASE collation_name = "det" -> "True"
      [] collation_name = "nondet" -> "False"
      [] OTHER -> "None"

\* _create_index_sql(model, fields=[field], suffix="_like", opclasses=[opclass])
like_index_sql(model, field, opclass) ==
    Stmt("sql_create_index", model.db_table, <<field.column>>,
         create_index_name(model.db_table, <<field.column>>, "_like"),
         << >>, <<opclass>>, << >>)

\* _create_like_index_sql that skips neither arrays nor non-deterministic collations
create_like_index_sql_for_any(model, field) ==
    IF field.type # "None" /\ (field.db_index \/ field.unique)
    THEN IF starts_with(field.type, "varchar")
         THEN like_index_sql(model, field, "varchar_pattern_ops")
         ELSE IF starts_with(field.type, "text")
         THEN like_index_sql(model, field, "text_pattern_ops")
         ELSE NoSql
    ELSE NoSql

\* _create_like_index_sql: the statement, or NoSql for None
create_like_index_sql(model, field) ==
    IF field.type # "None" /\ (field.db_index \/ field.unique)
    THEN IF has_bracket(field.type) THEN NoSql
         ELSE IF field.db_collation # ""
                 /\ is_collation_deterministic(field.db_collation) # "True"
         THEN NoSql
         ELSE IF starts_with(field.type, "varchar")
         THEN like_index_sql(model, field, "varchar_pattern_ops")
         ELSE IF starts_with(field.type, "text")
         THEN like_index_sql(model, field, "text_pattern_ops")
         ELSE NoSql
    ELSE NoSql

\* self._delete_index_sql(model, name)
delete_index_sql(model, name) ==
    Stmt("sql_delete_index", model.db_table, << >>, name, << >>, << >>, << >>)

\* The sequences of the database: introspection.get_sequences(cursor, table)
Sequence(table, column) ==
    Constraint(<<table, column, "seq">>, table, <<column>>, "sequence", "")

\* _get_sequence_name(table, column): the name, or << >> for None
get_sequence_name(d, table, column) ==
    LET found == {c \in d : c.kind = "sequence" /\ c.table = table /\ c.columns = <<column>>}
    IN IF found = {} THEN << >> ELSE SeqOfSet({c.name : c \in found})[1]

auto_field_types == {"AutoField", "BigAutoField", "SmallAutoField"}

\* db_types of the auto fields (lines 225-229)
auto_db_type(internal_type) ==
    CASE internal_type = "AutoField" -> "integer"
      [] internal_type = "BigAutoField" -> "bigint"
      [] internal_type = "SmallAutoField" -> "smallint"
      [] OTHER -> ""

\* lines 149-158: the like index of a varchar/text/citext column that changes type
drops_like_index(old_field, new_type) ==
    /\ old_field.db_index \/ old_field.unique
    /\ \/ starts_with(old_field.type, "varchar") /\ ~starts_with(new_type, "varchar")
       \/ starts_with(old_field.type, "text") /\ ~starts_with(new_type, "text")
       \/ starts_with(old_field.type, "citext") /\ ~starts_with(new_type, "citext")

\* The statements the hook executes itself, before it returns
alter_column_type_executed(s, model, old_field, new_field) ==
    LET s1 == IF drops_like_index(old_field, new_field.type)
              THEN execute(s, delete_index_sql(model,
                                 create_index_name(model.db_table, <<old_field.column>>, "_like")))
              ELSE s
    IN IF old_field.internal_type \in auto_field_types
          /\ new_field.internal_type \notin auto_field_types
       THEN execute(s1, Stmt("sql_drop_indentity", model.db_table, <<new_field.column>>,
                             << >>, << >>, << >>, << >>))
       ELSE s1

\* super()._alter_column_type_sql(...): the fragment and no post-action
super_alter_column_type_sql(model, new_field) ==
    alter_column_type_sql(model.db_table, new_field.column, new_field.type)

\* The post-actions of the hook that drops and re-creates the sequence on a
\* change of the auto-field subtype
alter_column_type_post_recreate(d, model, old_field, new_field) ==
    IF new_field.internal_type \in auto_field_types
       /\ old_field.internal_type \notin auto_field_types
    THEN <<Stmt("sql_add_identity", model.db_table, <<new_field.column>>,
                << >>, << >>, << >>, << >>)>>
    ELSE IF old_field.internal_type \in auto_field_types
            /\ new_field.internal_type \in auto_field_types
            /\ old_field.internal_type # new_field.internal_type
    THEN <<Stmt("sql_delete_sequence", "", << >>,
                get_sequence_name(d, model.db_table, new_field.column), << >>, << >>, << >>),
           Stmt("sql_add_identity", model.db_table, <<new_field.column>>,
                << >>, << >>, << >>, << >>)>>
    ELSE IF old_field.internal_type \in auto_field_types
    THEN IF get_sequence_name(d, model.db_table, new_field.column) # << >>
         THEN <<Stmt("sql_delete_sequence", "", << >>,
                     get_sequence_name(d, model.db_table, new_field.column),
                     << >>, << >>, << >>)>>
         ELSE << >>
    ELSE super_alter_column_type_sql(model, new_field).post

\* The post-actions the hook returns (lines 176-256), d being the database
\* when the hook looks for the sequence
alter_column_type_post(d, model, old_field, new_field) ==
    IF new_field.internal_type \in auto_field_types
       /\ old_field.internal_type \notin auto_field_types
    THEN <<Stmt("sql_add_identity", model.db_table, <<new_field.column>>,
                << >>, << >>, << >>, << >>)>>
    ELSE IF old_field.internal_type \in auto_field_types
            /\ new_field.internal_type \notin auto_field_types
    THEN IF get_sequence_name(d, model.db_table, new_field.column) # << >>
         THEN <<Stmt("sql_delete_sequence", "", << >>,
                     get_sequence_name(d, model.db_table, new_field.column),
                     << >>, << >>, << >>)>>
         ELSE << >>
    ELSE IF new_field.internal_type \in auto_field_types
            /\ old_field.internal_type \in auto_field_types
            /\ old_field.internal_type # new_field.internal_type
    THEN IF get_sequence_name(d, model.db_table, new_field.column) # << >>
         THEN <<Stmt("sql_alter_sequence_type", "", << >>,
                     get_sequence_name(d, model.db_table, new_field.column),
                     << >>, <<auto_db_type(new_field.internal_type)>>, << >>)>>
         ELSE << >>
    ELSE super_alter_column_type_sql(model, new_field).post

\* DatabaseSchemaEditor._alter_column_type_sql: the editor after the statements
\* the hook executed, the fragment and the post-actions it returns
pg_alter_column_type_sql(s, model, old_field, new_field) ==
    [s |-> alter_column_type_executed(s, model, old_field, new_field),
     fragment |-> super_alter_column_type_sql(model, new_field).fragment,
     params |-> << >>,
     post |-> alter_column_type_post(
                  alter_column_type_executed(s, model, old_field, new_field).db,
                  model, old_field, new_field)]


\* Steps 8 to 10 of the alter_field procedure with the hook of this editor:
\* the hook is called for a type change while the actions are accumulated,
\* the actions are applied, then the post-actions the hook returned are run
apply_type_change(s, model, old_field, new_field) ==
    IF old_field.type # new_field.type
    THEN LET h == pg_alter_column_type_sql(s, model, old_field, new_field)
         IN execute_all(apply_actions(h.s, model.db_table, new_field.column,
                                      alter_actions(old_field, new_field)),
                        h.post)
    ELSE apply_actions(s, model.db_table, new_field.column,
                       alter_actions(old_field, new_field))

\* super()._alter_field(...): the alter_field procedure, steps 2 to 16
base_alter_field(s, model, old_field, new_field, strict) ==
    LET table == model.db_table
        s1 == drop_removed_unique(s, table, old_field, new_field, strict)
        s2 == drop_removed_index(s1, table, old_field, new_field, strict)
        s3 == drop_own_fk(s2, table, old_field, strict)
        s5 == drop_changed_check(s3, table, old_field, new_field, strict)
        s6 == rename_column(s5, table, old_field, new_field)
        s8 == apply_type_change(s6, model, old_field, new_field)
        s9 == create_added_unique(s8, table, old_field, new_field)
        s10 == create_added_index(s9, table, old_field, new_field)
        s11 == drop_current_pk(s10, table, old_field, new_field, strict)
        s12 == create_new_pk(s11, table, old_field, new_field)
        s14 == create_own_fk(s12, table, new_field)
        s16 == create_changed_check(s14, table, old_field, new_field)
    IN close_if_persists(s16)

\* lines 292-298: added an index? Create any PostgreSQL-specific indexes
create_added_like_index(s, model, old_field, new_field) ==
    IF (~(old_field.db_index \/ old_field.unique) /\ new_field.db_index)
       \/ (~old_field.unique /\ new_field.unique)
    THEN IF create_like_index_sql(model, new_field) # NoSql
         THEN execute(s, create_like_index_sql(model, new_field))
         ELSE s
    ELSE s

\* lines 300-311: removed an index? Drop any PostgreSQL-specific indexes
drop_removed_like_index(s, model, old_field, new_field) ==
    IF old_field.unique /\ ~(new_field.db_index \/ new_field.unique)
    THEN execute(s, delete_index_sql(model,
                        create_index_name(model.db_table, <<old_field.column>>, "_like")))
    ELSE s

\* DatabaseSchemaEditor._alter_field
pg_alter_field(s, model, old_field, new_field, strict) ==
    drop_removed_like_index(
        create_added_like_index(base_alter_field(s, model, old_field, new_field, strict),
                                model, old_field, new_field),
        model, old_field, new_field)

----------------------------------------------------------------------------
(* The specification of one call of the PostgreSQL editor on an existing
   table a whose column x is as old_field describes: _alter_field, or the
   _alter_column_type_sql hook alone *)

PgColumnTypes == {"varchar(20)", "text", "citext", "varchar(20)[]", "integer"}

PgInternalType(type) ==
    CASE type \in {"varchar(20)", "varchar(20)[]"} -> "CharField"
      [] type \in {"text", "citext"} -> "TextField"
      [] OTHER -> "IntegerField"

\* "det" and "nondet" have a row in pg_collation, "unknown" has none
PgCollations == {"", "det", "nondet", "unknown"}

PgPlainFields ==
    {PgField(PgInternalType(ty), ty, f[1], f[2], FALSE, co)
        : ty \in PgColumnTypes,
          f \in {<<FALSE, FALSE>>, <<TRUE, FALSE>>, <<FALSE, TRUE>>, <<TRUE, TRUE>>},
          co \in PgCollations}

PgAutoFields ==
    {PgField(it, auto_db_type(it), FALSE, TRUE, TRUE, "") : it \in auto_field_types}

PgFields == PgPlainFields \cup PgAutoFields

\* What the database holds for the column: its constraints, the like index of
\* an indexed or unique varchar or text column, and perhaps a sequence
PgDatabase(old_field, has_sequence) ==
    ExistingFor("a", old_field, 1)
    \cup (IF create_like_index_sql(Model("a", <<old_field>>, << >>, << >>, << >>),
                                   old_field) # NoSql
          THEN {Constraint(create_index_name("a", <<old_field.column>>, "_like"), "a",
                           <<old_field.column>>, "index", "")}
          ELSE {})
    \cup (IF has_sequence THEN {Sequence("a", old_field.column)} ELSE {})

InitPostgres ==
    /\ collect_sql = FALSE
    /\ features = Features(TRUE, TRUE, TRUE, FALSE, FALSE)
    /\ session = "open"
    /\ deferred_sql = << >>
    /\ trace = <<Event("atomic_enter", NoSql, FALSE, "none")>>
    /\ \E old_field \in PgFields, has_sequence \in BOOLEAN :
          /\ models = [t \in {"a"} |-> Model("a", <<old_field>>, << >>, << >>, << >>)]
          /\ db = PgDatabase(old_field, has_sequence)
    /\ saved = [db |-> db, models |-> models]
    /\ exc = "none"
    /\ call = NoCall
    /\ nops = 0
    /\ nsessions = 1
    /\ naming = NoNaming
    /\ result = NoResult
    /\ geometry_sql = << >>

\* editor._alter_field(model, old_field, new_field, ..., strict)
PgAlterField(new_field, strict, fail) ==
    /\ CanCall
    /\ LET old_field == models["a"].local_fields[1]
       IN Finish(pg_alter_field(Start(fail), models["a"], old_field, new_field, strict),
                 Call("_alter_field", "a", old_field, new_field, strict, << >>),
                 [models EXCEPT !["a"].local_fields[1] = new_field])

\* editor._alter_column_type_sql(model, old_field, new_field, new_type, ...)
PgAlterColumnTypeSql(new_field) ==
    /\ CanCall
    /\ LET old_field == models["a"].local_fields[1]
           h == pg_alter_column_type_sql(Start(0), models["a"], old_field, new_field)
       IN /\ result' = [of |-> "_alter_column_type_sql",
                        args |-> [old_field |-> old_field, new_field |-> new_field],
                        value |-> [fragment |-> h.fragment, post |-> h.post]]
          /\ trace' = h.s.trace
          /\ db' = h.s.db
          /\ call' = [Call("_alter_column_type_sql", "a", old_field, new_field,
                           FALSE, << >>) EXCEPT !.end = Len(h.s.trace)]
    /\ nops' = nops + 1
    /\ UNCHANGED <<collect_sql, features, session, deferred_sql, saved, exc, models,
                   nsessions, naming, geometry_sql>>

NextPostgres ==
    \/ /\ nops = 0
       /\ \E new_field \in PgFields, strict \in BOOLEAN, fail \in 0..MaxFail :
             PgAlterField(new_field, strict, fail)
    \/ /\ nops = 0
       /\ \E new_field \in PgFields : PgAlterColumnTypeSql(new_field)

SpecPostgres == InitPostgres /\ [][NextPostgres]_vars

----------------------------------------------------------------------------
(* Reading the trace *)

IsStmt(e) == e.ev \in {"execute", "collect"}

IsKind(e, k) == IsStmt(e) /\ e.sql.k = k

\* The events the last step added to the trace
NewEvents == SubSeq(trace', Len(trace) + 1, Len(trace'))

Stmts(events) == SelectSeq(events, IsStmt)

CountEvents(ev) == Cardinality({i \in 1..Len(trace) : trace[i].ev = ev})

\* An FK-creation statement built by create_model (its name carries the
\* "_fk_%s_%s" suffix)
IsCreateModelFk(e) ==
    IsKind(e, "sql_create_fk") /\ e.sql.name[Len(e.sql.name)] = "_fk_%s_%s"

----------------------------------------------------------------------------
(* C1: within one session, the CREATE TABLE statement of a table is issued
   before every index-creation and FK-creation statement on that table, and
   the FK-creation statements of create_model are issued only at session
   close, after the CREATE TABLE statement of every table of the session. *)
C1_CreateModelDefersFks ==
    /\ \A i \in 1..Len(trace) :
          (IsKind(trace[i], "sql_create_index") \/ IsKind(trace[i], "sql_create_fk"))
          => \E j \in 1..(i - 1) : /\ IsKind(trace[j], "sql_create_table")
                                   /\ trace[j].sql.table = trace[i].sql.table
    /\ session = "open" => \A i \in 1..Len(trace) : ~IsCreateModelFk(trace[i])
    /\ \A i \in 1..Len(trace) : \A j \in 1..Len(trace) :
          (IsCreateModelFk(trace[i]) /\ IsKind(trace[j], "sql_create_table")) => j < i

\* Two tables with foreign keys to each other were created and the session closed
C1_Witness ==
    /\ session = "closed"
    /\ \E i \in 1..Len(trace) : \E j \in 1..Len(trace) :
          /\ IsCreateModelFk(trace[i]) /\ IsCreateModelFk(trace[j])
          /\ trace[i].sql.table = "a" /\ trace[i].sql.ref[1] = "b"
          /\ trace[j].sql.table = "b" /\ trace[j].sql.ref[1] = "a"

(* C2: on a clean session end the deferred statements are executed in the
   order in which they were appended, after every statement executed before,
   and the atomic block is exited after the last of them; a statement that
   raises ends the flush. *)
C2_FlushInOrder ==
    [][(session = "open" /\ session' = "closed" /\ exc = "none" /\ exc' # "Error")
       => /\ SubSeq(trace', 1, Len(trace)) = trace
          /\ \A i \in 1..Len(Stmts(NewEvents)) :
                /\ i <= Len(deferred_sql)
                /\ NewEvents[i].sql = deferred_sql[i]
                /\ IsStmt(NewEvents[i])
                /\ NewEvents[i].raised => i = Len(Stmts(NewEvents))
          /\ exc' = "none"
             => /\ Len(NewEvents) = Len(deferred_sql) + 1
                /\ NewEvents[Len(NewEvents)].ev = "atomic_exit"]_vars

\* A session that executed statements at once and deferred two or more has closed cleanly
C2_Witness ==
    /\ session = "closed" /\ exc = "none"
    /\ Len(deferred_sql) >= 2
    /\ \E i \in 1..Len(trace) : \E j \in 1..Len(trace) :
          /\ i < j
          /\ IsKind(trace[i], "sql_create_column")
          /\ IsStmt(trace[j]) /\ trace[j].sql = deferred_sql[1]
    /\ trace[Len(trace)].ev = "atomic_exit"

(* C3: when the session body exits with an exception no deferred statement is
   executed or collected, the atomic block is exited with that exception, and
   the database is as it was at __enter__ when DDL can be rolled back. *)
C3_ErrorExitDiscards ==
    [][(session = "open" /\ session' = "closed" /\ (exc # "none" \/ exc' = "Error"))
       => /\ trace' = Append(trace, Event("atomic_exit", NoSql, FALSE, exc'))
          /\ exc' # "none"
          /\ features.can_rollback_ddl => db' = saved.db]_vars

\* A session with deferred statements was left with an exception and rolled back
C3_Witness ==
    /\ session = "closed"
    /\ deferred_sql # << >>
    /\ features.can_rollback_ddl /\ ~collect_sql
    /\ \E i \in 1..Len(trace) : IsKind(trace[i], "sql_create_table")
    /\ db = {}
    /\ trace[Len(trace)].ev = "atomic_exit" /\ trace[Len(trace)].exc = "Error"

(* C4: on every exit path, also when a statement raises during the flush at
   session close, the atomic block entered in __enter__ is exited exactly
   once. *)
C4_AtomicExitedOnEveryPath ==
    session = "closed" => CountEvents("atomic_exit") = CountEvents("atomic_enter")

----------------------------------------------------------------------------
(* The statements of the last operation *)

CallEvents == SubSeq(trace, call.start + 1, call.end)

CallSql == [i \in 1..Len(Stmts(CallEvents)) |-> Stmts(CallEvents)[i].sql]

CallPos(Test(_)) == {i \in 1..Len(CallSql) : Test(CallSql[i])}

Before(A, B) == \A i \in A : \A j \in B : i < j

CountOf(Test(_)) == Cardinality(CallPos(Test))

\* An ALTER TABLE of the altered column that carries actions of lines 534-579
IsOwnAlter(sql) ==
    /\ sql.k = "sql_alter_column"
    /\ sql.table = call.table
    /\ sql.columns = <<call.new.column>>

HasTypeAction(sql) ==
    \E j \in 1..Len(sql.body) : sql.body[j][1] = "sql_alter_column_type"

IsOwnTypeAlter(sql) == IsOwnAlter(sql) /\ HasTypeAction(sql)

IsRelTypeAlter(sql) ==
    sql.k = "sql_alter_column" /\ sql.table # call.table /\ HasTypeAction(sql)

IsOwn(sql, k) == sql.k = k /\ sql.table = call.table

IsIncoming(sql, k) == sql.k = k /\ sql.table # call.table

AlterCalled == call.op = "alter_field"

\* The transition changes the type, removes uniqueness and removes the foreign key
C5_Case ==
    /\ AlterCalled
    /\ call.old.type # call.new.type
    /\ call.old.unique /\ ~call.new.unique
    /\ has_rel(call.old) /\ ~has_rel(call.new)

(* C5 as claimed: for an alter_field that changes the type, removes uniqueness
   and removes the foreign key, the FK constraint is dropped before the unique
   constraint, the unique constraint before the type-altering ALTER TABLE,
   and unique/FK constraints are created only after it. *)
C5_FkDropBeforeUniqueDrop ==
    C5_Case =>
        /\ Before(CallPos(LAMBDA q : IsOwn(q, "sql_delete_fk")),
                  CallPos(LAMBDA q : IsOwn(q, "sql_delete_unique")))
        /\ Before(CallPos(LAMBDA q : IsOwn(q, "sql_delete_unique")),
                  CallPos(IsOwnTypeAlter))
        /\ Before(CallPos(IsOwnTypeAlter),
                  CallPos(LAMBDA q : IsOwn(q, "sql_create_unique")
                                     \/ IsOwn(q, "sql_create_fk")))

(* C5 as amended: for an alter_field that changes the type, removes uniqueness
   and removes the foreign key, every unique constraint is dropped before
   every FK constraint, both before the type-altering ALTER TABLE, which is
   issued exactly once when no exception is raised, and no unique or FK
   constraint is created before it. *)
C5_UniqueDropBeforeFkDrop ==
    C5_Case =>
        /\ Before(CallPos(LAMBDA q : IsOwn(q, "sql_delete_unique")),
                  CallPos(LAMBDA q : IsOwn(q, "sql_delete_fk")))
        /\ Before(CallPos(LAMBDA q : IsOwn(q, "sql_delete_unique")
                                     \/ IsOwn(q, "sql_delete_fk")),
                  CallPos(IsOwnTypeAlter))
        /\ Before(CallPos(IsOwnTypeAlter),
                  CallPos(LAMBDA q : IsOwn(q, "sql_create_unique")
                                     \/ IsOwn(q, "sql_create_fk")))
        /\ exc = "none" => CountOf(IsOwnTypeAlter) = 1

\* Such an alter_field has dropped a unique and an FK constraint and altered the type
C5_Witness ==
    /\ C5_Case
    /\ exc = "none"
    /\ CountOf(LAMBDA q : IsOwn(q, "sql_delete_unique")) >= 1
    /\ CountOf(LAMBDA q : IsOwn(q, "sql_delete_fk")) >= 1
    /\ CountOf(IsOwnTypeAlter) = 1

(* C6: alter_field(model, f, f), old and new equal in every attribute, issues
   zero statements, for every column-backed field f. *)
C6_NoOpIssuesNothing ==
    (AlterCalled /\ call.old = call.new) => Len(CallSql) = 0

\* The type of a primary key was changed and nothing was raised
C7_Case ==
    /\ AlterCalled
    /\ pk_type_change(call.old, call.new)
    /\ exc = "none"

(* C7 as claimed: when alter_field changes the type of a primary-key column
   that N tables reference, the FK constraints of the N tables are dropped,
   then the PK column type is altered, then the PK constraint is dropped and
   re-created, then one FK constraint is re-created for each of the N
   tables. *)
C7_PkConstraintRecreated ==
    C7_Case =>
        /\ Before(CallPos(LAMBDA q : IsIncoming(q, "sql_delete_fk")), CallPos(IsOwnTypeAlter))
        /\ CountOf(LAMBDA q : IsOwn(q, "sql_delete_pk")) >= 1
        /\ CountOf(LAMBDA q : IsOwn(q, "sql_create_pk")) = 1
        /\ Before(CallPos(IsOwnTypeAlter), CallPos(LAMBDA q : IsOwn(q, "sql_delete_pk")))
        /\ Before(CallPos(LAMBDA q : IsOwn(q, "sql_delete_pk")),
                  CallPos(LAMBDA q : IsOwn(q, "sql_create_pk")))
        /\ Before(CallPos(LAMBDA q : IsOwn(q, "sql_create_pk")),
                  CallPos(LAMBDA q : IsIncoming(q, "sql_create_fk")))
        /\ \A i \in 1..Len(call.rels) :
              CountOf(LAMBDA q : q.k = "sql_create_fk" /\ q.table = call.rels[i].table) = 1

(* C7 as amended: when alter_field changes the type of a primary-key column
   that N tables reference and raises nothing, it drops every FK constraint
   that introspection finds on the referencing columns, then alters the PK
   column type, then alters the type of each of the N referencing columns,
   then creates one FK constraint for each of the N referencing tables, in
   that order; the PK constraint is neither dropped nor created. *)
C7_PkTypeChangeSequence ==
    C7_Case =>
        /\ Before(CallPos(LAMBDA q : IsIncoming(q, "sql_delete_fk")), CallPos(IsOwnTypeAlter))
        /\ CountOf(IsOwnTypeAlter) = 1
        /\ Before(CallPos(IsOwnTypeAlter), CallPos(IsRelTypeAlter))
        /\ Before(CallPos(IsRelTypeAlter), CallPos(LAMBDA q : IsIncoming(q, "sql_create_fk")))
        /\ CountOf(LAMBDA q : q.k \in {"sql_delete_pk", "sql_create_pk"}) = 0
        /\ \A i \in 1..Len(call.rels) :
              LET rel == call.rels[i]
              IN /\ {CallSql[j].name : j \in CallPos(LAMBDA q : q.k = "sql_delete_fk"
                                                              /\ q.table = rel.table)}
                    = Range(constraint_names(saved.db, rel.table, <<rel.field.column>>,
                                             "None", "None", "None", "True", "None"))
                 /\ CountOf(LAMBDA q : IsRelTypeAlter(q) /\ q.table = rel.table) = 1
                 /\ CountOf(LAMBDA q : q.k = "sql_create_fk" /\ q.table = rel.table
                                       /\ q.ref = <<call.table, call.new.column>>) = 1

\* The type of a primary key that two or more tables reference has been changed
C7_Witness ==
    /\ C7_Case
    /\ Len(call.rels) >= 2
    /\ CountOf(LAMBDA q : IsIncoming(q, "sql_delete_fk")) >= 2
    /\ CountOf(IsOwnTypeAlter) = 1
    /\ CountOf(LAMBDA q : IsIncoming(q, "sql_create_fk")) >= 2

IsDrop(sql) ==
    sql.k \in {"sql_delete_unique", "sql_delete_index", "sql_delete_fk", "sql_delete_check"}

IsCreate(sql) ==
    sql.k \in {"sql_create_unique", "sql_create_index", "sql_create_fk", "sql_create_check",
               "sql_create_pk"}

(* C8 as claimed: in every alter_field call every constraint/index DROP
   statement (unique, index, FK, incoming FK, check, primary key) is issued
   before the ALTER TABLE statements carrying the type/default/nullability
   actions, and every constraint/index creation statement after them. *)
C8_EveryDropBeforeAlter ==
    AlterCalled =>
        /\ Before(CallPos(LAMBDA q : IsDrop(q) \/ q.k = "sql_delete_pk"), CallPos(IsOwnAlter))
        /\ Before(CallPos(IsOwnAlter), CallPos(IsCreate))

(* C8 as amended: in every alter_field call every unique, index, FK, incoming
   FK and check DROP statement is issued before the ALTER TABLE statements
   carrying the type/default/nullability actions and every constraint/index
   creation statement after them; the DROP of the current primary key, issued
   when the field becomes the primary key, comes after those ALTER TABLE
   statements and after the unique and index creation, before the creation of
   the new primary key. *)
C8_DropsAlterCreates ==
    AlterCalled =>
        /\ Before(CallPos(IsDrop), CallPos(IsOwnAlter))
        /\ Before(CallPos(IsOwnAlter), CallPos(IsCreate))
        /\ Before(CallPos(IsOwnAlter), CallPos(LAMBDA q : q.k = "sql_delete_pk"))
        /\ Before(CallPos(LAMBDA q : q.k \in {"sql_create_unique", "sql_create_index"}),
                  CallPos(LAMBDA q : q.k = "sql_delete_pk"))
        /\ Before(CallPos(LAMBDA q : q.k = "sql_delete_pk"),
                  CallPos(LAMBDA q : q.k = "sql_create_pk"))
        /\ CountOf(LAMBDA q : q.k = "sql_delete_pk") > 0 => became_pk(call.old, call.new)

\* A field became the primary key in a call that dropped constraints, altered
\* the column and created constraints
C8_Witness ==
    /\ AlterCalled
    /\ exc = "none"
    /\ CountOf(IsDrop) >= 1
    /\ CountOf(IsOwnAlter) >= 1
    /\ CountOf(LAMBDA q : q.k = "sql_delete_pk") >= 1
    /\ CountOf(LAMBDA q : q.k = "sql_create_pk") = 1
    /\ CountOf(LAMBDA q : q.k = "sql_create_fk") >= 1

----------------------------------------------------------------------------
IsAddColumn(sql) ==
    sql.k = "sql_create_column" /\ sql.table = call.table /\ sql.columns = <<call.new.column>>

HasDefaultClause(sql) == "DEFAULT %s" \in Range(sql.body[1])

IsDropDefault(sql) ==
    /\ sql.k = "sql_alter_column"
    /\ sql.table = call.table
    /\ sql.body = <<<<"sql_alter_column_no_default", call.new.column>>>>

NothingRaised == \A i \in 1..Len(CallEvents) : ~CallEvents[i].raised

AddFieldCalled == call.op = "add_field" /\ call.new.type # "None"

(* C10 as claimed: for every add_field on a column-backed field the ADD
   COLUMN statement includes the DEFAULT clause and the very next statement
   issued is the DROP DEFAULT of that column. *)
C10_DefaultAlwaysAddedAndDropped ==
    (AddFieldCalled /\ NothingRaised) =>
        /\ Len(CallSql) >= 2
        /\ IsAddColumn(CallSql[1])
        /\ HasDefaultClause(CallSql[1])
        /\ IsDropDefault(CallSql[2])

(* C10 as amended: for every add_field on a column-backed field the first
   statement issued is the ADD COLUMN; it includes the DEFAULT clause exactly
   when the effective default is not None (a default other than None, given
   or returned by the field's callable, or the empty string of a non-null
   blank field that allows empty strings); unless the ADD COLUMN raises or
   the field's default is None, the very next statement issued is the DROP
   DEFAULT of that column, so every DEFAULT clause is followed by its DROP
   DEFAULT; no other statement is issued before add_field returns. *)
C10_DefaultClauseThenDropDefault ==
    AddFieldCalled =>
        /\ Len(CallSql) \in {1, 2}
        /\ IsAddColumn(CallSql[1])
        /\ HasDefaultClause(CallSql[1])
              <=> \/ call.new.default \in {"d1", "callable_d1"}
                  \/ /\ call.new.default = "NOT_PROVIDED"
                     /\ ~call.new.null /\ call.new.blank /\ call.new.empty_strings_allowed
        /\ call.new.default \in {"d1", "callable_d1"} => CallSql[1].params = <<"d1">>
        /\ ~CallEvents[1].raised => (Len(CallSql) = 2 <=> call.new.default # "None")
        /\ (HasDefaultClause(CallSql[1]) /\ ~CallEvents[1].raised) => Len(CallSql) = 2
        /\ Len(CallSql) = 2 => IsDropDefault(CallSql[2])

\* An executed ADD COLUMN with a DEFAULT clause was followed by its DROP DEFAULT
C10_Witness ==
    /\ AddFieldCalled
    /\ ~collect_sql
    /\ NothingRaised
    /\ HasDefaultClause(CallSql[1])
    /\ Len(CallSql) = 2
    /\ IsDropDefault(CallSql[2])

----------------------------------------------------------------------------
(* The schema as the issued statements leave it: the constraints they have
   created and not yet dropped *)
RECURSIVE SchemaOf(_)
SchemaOf(events) ==
    IF events = << >> THEN {}
    ELSE LET e == events[Len(events)]
             before == SchemaOf(SubSeq(events, 1, Len(events) - 1))
         IN IF IsStmt(e) /\ ~e.raised THEN Apply(before, e.sql) ELSE before

\* The constraints of the given kinds on the column of statement i of the
\* trace, when that statement is issued
ConstraintsAt(i, kinds) ==
    {c \in SchemaOf(SubSeq(trace, 1, i - 1)) :
        /\ c.table = trace[i].sql.table
        /\ trace[i].sql.columns[1] \in Range(c.columns)
        /\ c.kind \in kinds}

\* The type-changing ALTER statements of the last alter_field call
CallTypeAlters ==
    {i \in (call.start + 1)..call.end :
        /\ AlterCalled
        /\ IsStmt(trace[i])
        /\ trace[i].sql.k = "sql_alter_column"
        /\ HasTypeAction(trace[i].sql)}

(* C9 as claimed: when alter_field issues a type-changing ALTER on a column
   (the altered column, or a referencing column), no FK, unique, check or
   primary-key constraint that the issued statements have created and not yet
   dropped is on that column. *)
C9_NoConstraintAtTypeAlter ==
    \A i \in CallTypeAlters :
        ConstraintsAt(i, {"foreign_key", "unique", "check", "primary_key"}) = {}

(* C9 as amended: when an alter_field that executes its statements issues a
   type-changing ALTER on the altered column and old_field carries a foreign
   key, or on a referencing column because the type of the primary key
   changes, no FK constraint that the issued statements have created and not
   yet dropped is on that column (unique, check and primary-key constraints
   stay in place, and so do the FK constraints of an altered column whose
   old_field carries no foreign key and of the referencing columns updated
   because the field becomes the primary key). *)
C9_NoFkAtTypeAlter ==
    ~collect_sql =>
        \A i \in CallTypeAlters :
            (IF IsOwnAlter(trace[i].sql) THEN has_rel(call.old)
             ELSE pk_type_change(call.old, call.new))
                => ConstraintsAt(i, {"foreign_key"}) = {}

\* The type of a column was altered after the FK constraint that earlier
\* statements had created on it was dropped
C9_Witness ==
    /\ ~collect_sql
    /\ \E i \in CallTypeAlters :
          /\ ConstraintsAt(i, {"foreign_key"}) = {}
          /\ \E j \in (call.start + 1)..(i - 1) :
                /\ IsKind(trace[j], "sql_delete_fk")
                /\ \E c \in SchemaOf(SubSeq(trace, 1, j - 1)) :
                      /\ c.kind = "foreign_key"
                      /\ c.table = trace[i].sql.table
                      /\ c.name = trace[j].sql.name
                      /\ trace[i].sql.columns[1] \in Range(c.columns)

----------------------------------------------------------------------------
\* The index statement create_model builds for one field (lines 191-200)
IsFieldIndex(sql) ==
    sql.k = "sql_create_index" /\ sql.name[Len(sql.name)] = ""

IndexedFields(model) ==
    {i \in 1..Len(model.local_fields) :
        model.local_fields[i].db_index /\ ~model.local_fields[i].unique}

CreateModelReturned ==
    call.op = "create_model" /\ session = "open" /\ exc = "none"

TableCreatedBefore(i) ==
    \E j \in 1..(i - 1) : /\ IsKind(trace[j], "sql_create_table")
                          /\ ~trace[j].raised
                          /\ trace[j].sql.table = trace[i].sql.table

(* C11 as claimed: the index-creation statement that create_model produces
   for a field with db_index and not unique is executed once the table's
   CREATE TABLE has run, before create_model returns. *)
C11_FieldIndexBeforeReturn ==
    CreateModelReturned =>
        \A f \in IndexedFields(models[call.table]) :
            \E i \in 1..Len(CallSql) :
                /\ CallSql[i] = sql_create_index(call.table,
                                    <<models[call.table].local_fields[f].column>>, "")
                /\ \E j \in 1..(i - 1) : IsOwn(CallSql[j], "sql_create_table")

(* C11 as amended: the index-creation statement that create_model produces
   for a field with db_index and not unique is deferred: when create_model
   returns it is in deferred_sql and has not been issued, no such statement is
   issued while the session is open, and when it is issued, at the clean end
   of the session, the table's CREATE TABLE has run. *)
C11_FieldIndexDeferred ==
    /\ CreateModelReturned =>
          \A f \in IndexedFields(models[call.table]) :
              /\ sql_create_index(call.table,
                     <<models[call.table].local_fields[f].column>>, "")
                    \in Range(deferred_sql)
              /\ \A i \in 1..Len(CallSql) : ~IsFieldIndex(CallSql[i])
    /\ session = "open" => \A i \in 1..Len(trace) : ~(IsStmt(trace[i]) /\ IsFieldIndex(trace[i].sql))
    /\ \A i \in 1..Len(trace) :
          (IsStmt(trace[i]) /\ IsFieldIndex(trace[i].sql))
             => TableCreatedBefore(i)

\* A model with an indexed field was created and its index statement was
\* issued when the session closed
C11_Witness ==
    /\ call.op = "create_model"
    /\ session = "closed" /\ exc = "none"
    /\ IndexedFields(models[call.table]) # {}
    /\ \E i \in (call.end + 1)..Len(trace) :
          /\ IsStmt(trace[i]) /\ ~trace[i].raised
          /\ trace[i].sql = sql_create_index(call.table, <<"x">>, "")
          /\ TableCreatedBefore(i)

IsAutoinc(sql) == sql.k = "autoinc_sql"

HasAutoField(model) ==
    \E i \in 1..Len(model.local_fields) : model.local_fields[i].internal_type = "AutoField"

(* C12 as claimed: when the dialect returns auto-increment SQL for an
   AutoField, create_model executes those statements immediately after the
   table's CREATE TABLE statement, before create_model returns. *)
C12_AutoincBeforeReturn ==
    (CreateModelReturned /\ features.autoinc_sql /\ HasAutoField(models[call.table])) =>
        \E i \in 1..Len(CallSql) :
            /\ IsOwn(CallSql[i], "sql_create_table")
            /\ i + 1 \in 1..Len(CallSql)
            /\ IsOwn(CallSql[i + 1], "autoinc_sql")

(* C12 as amended: when the dialect returns auto-increment SQL for an
   AutoField, create_model defers those statements: when it returns they are
   in deferred_sql, in the order the dialect gave them, and none has been
   issued; none is issued while the session is open, and they are issued, in
   that order, at the clean end of the session, after the table's CREATE
   TABLE; a dialect that returns none has none deferred or issued. *)
C12_AutoincDeferred ==
    /\ (CreateModelReturned /\ features.autoinc_sql /\ HasAutoField(models[call.table])) =>
          /\ \E i \in 1..(Len(deferred_sql) - 1) :
                <<deferred_sql[i], deferred_sql[i + 1]>> = autoinc_sql(call.table, "id")
          /\ \A i \in 1..Len(CallSql) : ~IsAutoinc(CallSql[i])
    /\ session = "open" => \A i \in 1..Len(trace) : ~(IsStmt(trace[i]) /\ IsAutoinc(trace[i].sql))
    /\ \A i \in 1..Len(trace) :
          (IsStmt(trace[i]) /\ IsAutoinc(trace[i].sql))
             => /\ TableCreatedBefore(i)
                /\ trace[i].sql.name = <<"trigger">>
                      => i > 1 /\ trace[i - 1].sql
                                    = [trace[i].sql EXCEPT !.name = <<"sequence">>]
    /\ ~features.autoinc_sql =>
          /\ \A i \in 1..Len(trace) : ~(IsStmt(trace[i]) /\ IsAutoinc(trace[i].sql))
          /\ \A i \in 1..Len(deferred_sql) : ~IsAutoinc(deferred_sql[i])

\* The auto-increment statements of a created table were issued when the
\* session closed
C12_Witness ==
    /\ call.op = "create_model"
    /\ session = "closed" /\ exc = "none"
    /\ features.autoinc_sql
    /\ \E i \in (call.end + 1)..(Len(trace) - 1) :
          /\ <<trace[i].sql, trace[i + 1].sql>> = autoinc_sql(call.table, "id")
          /\ ~trace[i].raised /\ ~trace[i + 1].raised
          /\ TableCreatedBefore(i)

----------------------------------------------------------------------------
IsAutoM2M(field) == is_m2m(field) /\ field.rel.auto_created

(* C13: alter_field raises a ValueError and issues no statement whenever
   exactly one of old/new field is column-less, or both are column-less and
   they are not both many-to-many fields with auto-created through models;
   when both are auto-created many-to-many it delegates to the M2M repoint
   procedure, which starts with the rename of the through table. *)
C13_IncompatibleTypesRaiseValueError ==
    (call.op = "alter_field" /\ (call.old.type = "None" \/ call.new.type = "None")) =>
        IF call.old.type = "None" /\ call.new.type = "None"
           /\ IsAutoM2M(call.old) /\ IsAutoM2M(call.new)
        THEN /\ exc # "ValueError"
             /\ Len(CallSql) >= 1
             /\ CallSql[1].k = "sql_rename_table"
        ELSE /\ exc = "ValueError"
             /\ Len(CallSql) = 0

----------------------------------------------------------------------------
ConsistencyOps == {"alter_field", "alter_unique_together", "alter_index_together"}

(* C14: in collect mode, an operation (alter_field, alter_unique_together,
   alter_index_together) that raises a configuration or consistency error
   (ValueError) has appended no statement to collected_sql when it raises. *)
C14_NoPartialSqlOnError ==
    (collect_sql /\ call.op \in ConsistencyOps /\ exc = "ValueError") =>
        Len(CallSql) = 0

----------------------------------------------------------------------------
IsCreateFk(sql) == sql.k = "sql_create_fk"

(* C15: when supports_foreign_keys is false, no sequence of create_model,
   add_field and alter_field calls issues or defers an FK-creation
   statement. *)
C15_NoFkWithoutSupport ==
    ~features.supports_foreign_keys =>
        /\ \A i \in 1..Len(trace) : ~IsCreateFk(trace[i].sql)
        /\ \A i \in 1..Len(deferred_sql) : ~IsCreateFk(deferred_sql[i])

----------------------------------------------------------------------------
ClosingOps == {"add_field", "remove_field", "alter_field"}

Closes(events) == Cardinality({i \in 1..Len(events) : events[i].ev = "close"})

(* C18: add_field, remove_field and alter_field on a column-backed field
   that return close the connection exactly once, after their last
   statement, when connection_persists_old_columns is true, and never when it
   is false; no other step of the editor closes the connection. *)
C18_CloseOnceAfterColumnChange ==
    [][IF /\ nops' # nops
          /\ call'.op \in ClosingOps
          /\ call'.new.type # "None"
          /\ exc' = "none"
          /\ features.connection_persists_old_columns
       THEN /\ Closes(NewEvents) = 1
            /\ NewEvents[Len(NewEvents)].ev = "close"
       ELSE Closes(NewEvents) = 0]_vars

C18_Witness ==
    /\ features.connection_persists_old_columns
    /\ call.op = "alter_field"
    /\ exc = "none"
    /\ Len(CallSql) >= 1
    /\ Closes(CallEvents) = 1
    /\ CallEvents[Len(CallEvents)].ev = "close"

----------------------------------------------------------------------------
TogetherCalled == call.op \in {"alter_unique_together", "alter_index_together"}

TogetherKind == IF call.op = "alter_unique_together" THEN "unique" ELSE "index"

OnlyOld == Range(call.old_together) \ Range(call.new_together)

OnlyNew == Range(call.new_together) \ Range(call.old_together)

\* The constraints of the call's kind the database held for a group before the call
GroupMatches(g) ==
    {c \in saved.db : /\ c.table = call.table
                      /\ c.columns = ColumnsOf(TogetherModel, g)
                      /\ c.kind = TogetherKind}

IsGroupDrop(sql, g) ==
    /\ sql.k = (IF TogetherKind = "unique" THEN "sql_delete_unique" ELSE "sql_delete_index")
    /\ sql.table = call.table
    /\ \E c \in GroupMatches(g) : c.name = sql.name

IsGroupCreate(sql, g) ==
    /\ sql.k = (IF TogetherKind = "unique" THEN "sql_create_unique" ELSE "sql_create_index")
    /\ sql.table = call.table
    /\ sql.columns = ColumnsOf(TogetherModel, g)

GroupDrops(g) == {i \in 1..Len(CallSql) : IsGroupDrop(CallSql[i], g)}

GroupCreates(g) == {i \in 1..Len(CallSql) : IsGroupCreate(CallSql[i], g)}

(* C16: alter_unique_together and alter_index_together treat the old and new
   groupings as sets of tuples: every statement they issue is the drop of a
   group present only in old or the creation of a group present only in new,
   with one statement per such group when the call returns (never more), so
   nothing is issued for a group present in both, whatever the order or
   repetition in the lists; all drops precede all creates. *)
C16_TogetherSetDifference ==
    TogetherCalled =>
        /\ \A i \in 1..Len(CallSql) :
              \/ \E g \in OnlyOld : IsGroupDrop(CallSql[i], g)
              \/ \E g \in OnlyNew : IsGroupCreate(CallSql[i], g)
        /\ \A g \in OnlyOld :
              /\ Cardinality(GroupDrops(g)) <= 1
              /\ exc = "none" => Cardinality(GroupDrops(g)) = 1
        /\ \A g \in OnlyNew :
              /\ Cardinality(GroupCreates(g)) <= 1
              /\ exc = "none" => Cardinality(GroupCreates(g)) = 1
        /\ Before(UNION {GroupDrops(g) : g \in OnlyOld},
                  UNION {GroupCreates(g) : g \in OnlyNew})

\* A call that returned with a group in both lists, one only in old and one only in new
C16_Witness ==
    /\ TogetherCalled
    /\ exc = "none"
    /\ Range(call.old_together) \cap Range(call.new_together) # {}
    /\ \E g \in OnlyOld : Cardinality(GroupDrops(g)) = 1
    /\ \E g \in OnlyNew : Cardinality(GroupCreates(g)) = 1
    /\ Len(CallSql) = 2

(* C17: in alter_unique_together and alter_index_together, for each group to
   drop for which introspection does not return exactly one matching
   constraint or index, a ValueError is raised and no drop statement is issued
   for that group. *)
C17_WrongCountRaisesValueError ==
    TogetherCalled =>
        \A g \in OnlyOld :
            Cardinality(GroupMatches(g)) # 1 =>
                /\ exc = "ValueError"
                /\ GroupDrops(g) = {}

\* A call that dropped one group and raised at a group with two matching constraints
C17_Witness ==
    /\ TogetherCalled
    /\ exc = "ValueError"
    /\ \E g \in OnlyOld : Cardinality(GroupMatches(g)) = 2 /\ GroupDrops(g) = {}
    /\ \E g \in OnlyOld : Cardinality(GroupDrops(g)) = 1

----------------------------------------------------------------------------
\* The name before any truncation
NaiveName ==
    IF Len(naming.column_names) = 1 /\ naming.suffix = << >>
    THEN naming.table \o <<"_">> \o digest(naming.column_names[1])
    ELSE naming.table \o <<"_">> \o naming.column_names[1]
         \o index_unique_name(naming.seed, sanitize(naming.table), naming.column_names)
         \o naming.suffix

(* C19: for all (table, columns, suffix), _create_index_name called twice with
   identical arguments returns the identical string, and the length of the
   returned string never exceeds the dialect's maximum identifier length. *)
C19_NameStableAndBounded ==
    \A i \in 1..Len(naming.returned) :
        /\ naming.returned[i] = naming.returned[1]
        /\ Len(naming.returned[i]) <= features.max_index_name_length

\* Two calls with arguments whose naive concatenation is too long
C19_Witness ==
    /\ Len(naming.returned) = 2
    /\ Len(naming.column_names) = 2
    /\ Len(NaiveName) > features.max_index_name_length
    /\ Len(naming.returned[2]) = features.max_index_name_length

(* C20: for every (table, columns, suffix) whose naive concatenation exceeds
   the maximum length, the name returned by _create_index_name respects the
   maximum length and does not start with '_' or with a digit. *)
C20_TruncatedNameIsSafe ==
    \A i \in 1..Len(naming.returned) :
        Len(NaiveName) > features.max_index_name_length =>
            /\ Len(naming.returned[i]) <= features.max_index_name_length
            /\ naming.returned[i][1] # "_"
            /\ naming.returned[i][1] \notin Digits

----------------------------------------------------------------------------
\* The primary-key constraints of a table after the first i events of the trace
PksAt(i, t) ==
    {c \in SchemaOf(SubSeq(trace, 1, i)) : c.table = t /\ c.kind = "primary_key"}

(* C21 as claimed: with the schema taken as the constraints created and not
   yet dropped by the issued statements, after any sequence of create_model,
   add_field and alter_field calls each table has at most one primary-key
   constraint at every point in the statement sequence. *)
C21_AtMostOnePk ==
    \A i \in 0..Len(trace) : \A t \in AllTables : Cardinality(PksAt(i, t)) <= 1

----------------------------------------------------------------------------
\* The last call as an editor in execute mode runs it, on the schema the
\* statements issued before the call have built
ExecuteModeCall ==
    LET s == [trace |-> << >>, db |-> SchemaOf(SubSeq(trace, 1, call.start)),
              deferred |-> << >>, exc |-> "none", n |-> 0, fail |-> 0, collect |-> FALSE,
              geometry |-> << >>]
        model == models[call.table]
    IN CASE call.op = "alter_field" ->
                alter_field(s, model, call.old, call.new, call.strict, call.rels)
         [] call.op = "add_field" -> add_field(s, model, call.new)
         [] call.op = "remove_field" -> remove_field(s, model, call.old)
         [] call.op = "create_model" -> create_model(s, model)
         [] OTHER -> delete_model(s, model)

ExecuteModeSql ==
    [i \in 1..Len(Stmts(ExecuteModeCall.trace)) |-> Stmts(ExecuteModeCall.trace)[i].sql]

(* C22: in collect mode no statement is executed on the cursor, and the
   statements an operation appends to collected_sql are, each once and in the
   same order, the statements execute mode would have executed. *)
C22_CollectMatchesExecute ==
    collect_sql =>
        /\ \A i \in 1..Len(trace) : trace[i].ev # "execute"
        /\ (call.op # "" /\ exc = "none") => CallSql = ExecuteModeSql

----------------------------------------------------------------------------
\* The tables the last call issued a CREATE TABLE for, in order
CreatedTables ==
    LET creates == SelectSeq(CallSql, LAMBDA q : q.k = "sql_create_table")
    IN [i \in 1..Len(creates) |-> creates[i].table]

\* The through tables of the auto-created many-to-many fields of the created model
AutoThroughTables ==
    {models[call.table].local_many_to_many[i].rel.through :
        i \in {j \in 1..Len(models[call.table].local_many_to_many) :
                  models[call.table].local_many_to_many[j].rel.auto_created}}

\* The columns of the created model's fields that have no database type
ColumnlessColumns ==
    {models[call.table].local_fields[i].column :
        i \in {j \in 1..Len(models[call.table].local_fields) :
                  models[call.table].local_fields[j].type = "None"}}

MentionsColumnless(sql) ==
    /\ sql.table = call.table
    /\ \/ \E i \in 1..Len(sql.columns) : sql.columns[i] \in ColumnlessColumns
       \/ \E i \in 1..Len(sql.body) : sql.body[i][1] \in ColumnlessColumns

(* C23: create_model(model) creates the model's table and then, recursively,
   exactly the auto-created through tables of the model's local many-to-many
   fields; it issues or defers no column definition, index or FK statement
   for a field that has no physical column. *)
C23_CreatesAutoThroughTablesOnly ==
    (call.op = "create_model" /\ exc = "none") =>
        /\ Len(CreatedTables) >= 1
        /\ CreatedTables[1] = call.table
        /\ Range(Tail(CreatedTables)) = AutoThroughTables
        /\ Len(CreatedTables) = 1 + Cardinality(AutoThroughTables)
        /\ \A i \in 1..Len(CallSql) : ~MentionsColumnless(CallSql[i])
        /\ \A i \in 1..Len(deferred_sql) : ~MentionsColumnless(deferred_sql[i])

----------------------------------------------------------------------------
IsGeometryMetadata(sql) == sql.k \in {"sql_remove_geometry_metadata", "sql_drop_spatial_index"}

\* The geometry columns of a model
GeometryColumns(model) ==
    {model.local_fields[i].column :
        i \in {j \in 1..Len(model.local_fields) : is_geometry(model.local_fields[j])}}

\* The columns whose geometry metadata the statements remove, both the
\* registration and the spatial index
MetadataRemoved(sqls) ==
    {c \in {sqls[i].columns[1] : i \in {j \in 1..Len(sqls) : IsGeometryMetadata(sqls[j])}} :
        \A k \in {"sql_remove_geometry_metadata", "sql_drop_spatial_index"} :
            \E i \in 1..Len(sqls) :
                sqls[i].k = k /\ sqls[i].table = call'.table /\ sqls[i].columns = <<c>>}

\* Every statement that removes geometry metadata comes before every
\* statement of template k
MetadataBefore(sqls, k) ==
    \A i, j \in 1..Len(sqls) :
        (IsGeometryMetadata(sqls[i]) /\ sqls[j].k = k) => i < j

NewSql == [i \in 1..Len(Stmts(NewEvents)) |-> Stmts(NewEvents)[i].sql]

(* C24: the base delete_model issues exactly one statement, the DROP TABLE
   ... CASCADE of the model's table; the Spatialite delete_model issues the
   removal of the geometry metadata of every geometry field of the model
   before the DROP TABLE statement and none after it, and the Spatialite
   remove_field issues the removal of the geometry metadata of a geometry
   field before the DROP COLUMN statement and none after it. *)
C24_MetadataRemovedBeforeDrop ==
    [][/\ (nops' # nops /\ call'.op = "delete_model"
              /\ features.editor = "BaseDatabaseSchemaEditor")
          => NewSql = <<Stmt("sql_delete_table", call'.table, << >>, << >>, << >>, << >>, << >>)>>
       /\ (nops' # nops /\ call'.op = "delete_model"
              /\ features.editor = "SpatialiteSchemaEditor")
          => /\ MetadataBefore(NewSql, "sql_delete_table")
             /\ exc' = "none" =>
                   /\ MetadataRemoved(NewSql) = GeometryColumns(models[call'.table])
                   /\ NewSql[Len(NewSql)] =
                         Stmt("sql_delete_table", call'.table, << >>, << >>, << >>, << >>, << >>)
       /\ (nops' # nops /\ call'.op = "remove_field"
              /\ features.editor = "SpatialiteSchemaEditor")
          => /\ MetadataBefore(NewSql, "sql_delete_column")
             /\ (exc' = "none" /\ is_geometry(call'.old))
                   => MetadataRemoved(NewSql) = {call'.old.column}
             /\ (exc' = "none" /\ call'.old.type # "None")
                   => NewSql[Len(NewSql)].k = "sql_delete_column"]_vars

C24_Witness ==
    /\ features.editor = "SpatialiteSchemaEditor"
    /\ call.op = "delete_model"
    /\ exc = "none"
    /\ Len(CallSql) = 5
    /\ CallSql[1].k = "sql_remove_geometry_metadata"
    /\ CallSql[5].k = "sql_delete_table"

----------------------------------------------------------------------------
DropKinds == {"unique", "index", "foreign_key", "check", "primary_key"}

DropTemplate(kind) ==
    CASE kind = "unique" -> "sql_delete_unique"
      [] kind = "index" -> "sql_delete_index"
      [] kind = "foreign_key" -> "sql_delete_fk"
      [] kind = "check" -> "sql_delete_check"
      [] kind = "primary_key" -> "sql_delete_pk"

\* Whether the call has to drop the constraints of this kind of the old column
MustDrop(kind) ==
    CASE kind = "unique" ->
            call.old.unique /\ (~call.new.unique
                                \/ (~call.old.primary_key /\ call.new.primary_key))
      [] kind = "index" -> call.old.db_index /\ ~call.new.db_index /\ ~call.old.unique
      [] kind = "foreign_key" -> has_rel(call.old)
      [] kind = "check" -> call.old.check # call.new.check /\ call.old.check # "None"
      [] kind = "primary_key" -> ~call.old.primary_key /\ call.new.primary_key

\* The constraints of this kind the database held for the old column (for the
\* table, when the kind is the primary key) when the call started
IntrospectedMatches(kind) ==
    {c.name : c \in {x \in saved.db :
                        /\ x.table = call.table
                        /\ x.kind = kind
                        /\ kind = "primary_key" \/ x.columns = <<call.old.column>>}}

\* The names the call's drop statements of this kind name, in order
KindDrops(kind) ==
    LET IsKindDrop(sql) == sql.k = DropTemplate(kind) /\ sql.table = call.table
    IN [i \in 1..Len(SelectSeq(CallSql, IsKindDrop)) |-> SelectSeq(CallSql, IsKindDrop)[i].name]

(* C25: in alter_field, for each constraint kind it may drop (unique, index,
   own FK, check, old primary key): with strict=True, an introspected match
   count different from 1 raises ValueError before any constraint of that
   kind is dropped; with strict=False no error is raised and exactly one drop
   statement is issued per introspected match. *)
C25_StrictCountsMatches ==
    (call.op = "alter_field") =>
        /\ ~call.strict => exc = "none"
        /\ \A kind \in DropKinds :
              /\ (call.strict /\ MustDrop(kind) /\ Cardinality(IntrospectedMatches(kind)) # 1)
                    => exc = "ValueError" /\ KindDrops(kind) = << >>
              /\ (MustDrop(kind) /\ exc = "none")
                    => /\ Range(KindDrops(kind)) = IntrospectedMatches(kind)
                       /\ Len(KindDrops(kind)) = Cardinality(IntrospectedMatches(kind))
              /\ ~MustDrop(kind) => KindDrops(kind) = << >>
        /\ exc = "ValueError"
              => \E kind \in DropKinds :
                    MustDrop(kind) /\ Cardinality(IntrospectedMatches(kind)) # 1

C25_Witness ==
    /\ call.op = "alter_field"
    /\ ~call.strict
    /\ exc = "none"
    /\ \E kind \in DropKinds : MustDrop(kind) /\ Len(KindDrops(kind)) = 2
    /\ \E kind \in DropKinds : MustDrop(kind) /\ kind = "primary_key"

----------------------------------------------------------------------------
\* The ALTER TABLE statements of the call that change the field's column
IsColumnAlter(sql) ==
    sql.k = "sql_alter_column" /\ sql.table = call.table /\ sql.columns = <<call.new.column>>

ColumnAlters == SelectSeq(CallSql, IsColumnAlter)

\* What a fragment changes, by its template
FragmentChange(fragment) ==
    CASE fragment[1] = "sql_alter_column_type" -> "type"
      [] fragment[1] \in {"sql_alter_column_default", "sql_alter_column_no_default"} -> "default"
      [] fragment[1] \in {"sql_alter_column_null", "sql_alter_column_not_null"} -> "null"
      [] OTHER -> ""

RECURSIVE Flatten(_)
Flatten(seqs) == IF seqs = << >> THEN << >> ELSE Head(seqs) \o Flatten(Tail(seqs))

\* The changes of the call's ALTER TABLE statements and their parameters, in
\* the order they are issued
IssuedChanges ==
    Flatten([i \in 1..Len(ColumnAlters) |->
                [j \in 1..Len(ColumnAlters[i].body) |-> FragmentChange(ColumnAlters[i].body[j])]])

IssuedParams == Flatten([i \in 1..Len(ColumnAlters) |-> ColumnAlters[i].params])

\* The changes between the two fields, in the order type, default, nullability
ExpectedChanges ==
    (IF call.old.type # call.new.type THEN <<"type">> ELSE << >>)
    \o (IF effective_default(call.old) # effective_default(call.new)
        THEN <<"default">> ELSE << >>)
    \o (IF call.old.null # call.new.null THEN <<"null">> ELSE << >>)

ExpectedParams ==
    IF effective_default(call.old) # effective_default(call.new)
       /\ effective_default(call.new) # "None"
    THEN <<effective_default(call.new)>> ELSE << >>

(* C26: in alter_field the accumulated actions are ordered type change, then
   default change, then nullability change.  If supports_combined_alters is
   true and at least one action exists, exactly one ALTER TABLE statement is
   issued whose fragments and whose parameter list are the concatenation of
   the actions' fragments and parameters in that order; otherwise exactly one
   ALTER TABLE statement per action is issued in that order; with no action,
   no ALTER TABLE is issued. *)
C26_ActionsOrderedAndCombined ==
    (call.op = "alter_field" /\ exc = "none") =>
        /\ IssuedChanges = ExpectedChanges
        /\ IssuedParams = ExpectedParams
        /\ Len(ColumnAlters) =
              IF ExpectedChanges = << >> THEN 0
              ELSE IF features.supports_combined_alters THEN 1
              ELSE Len(ExpectedChanges)
        /\ ~features.supports_combined_alters
              => \A i \in 1..Len(ColumnAlters) : Len(ColumnAlters[i].body) = 1

C26_Witness ==
    /\ call.op = "alter_field"
    /\ exc = "none"
    /\ features.supports_combined_alters
    /\ Len(ColumnAlters) = 1
    /\ IssuedChanges = <<"type", "default">>
    /\ IssuedParams = <<"d1">>

C26_WitnessSeparate ==
    /\ call.op = "alter_field"
    /\ exc = "none"
    /\ ~features.supports_combined_alters
    /\ Len(ColumnAlters) = 3

----------------------------------------------------------------------------
IsRename(sql) == sql.k = "sql_rename_column"

\* A statement of the post-actions the type-change hook returned
IsPostAction(sql) ==
    sql \in Range(alter_column_type_sql(call.table, call.new.column, call.new.type).post)

IsUniqueOrIndexCreate(sql) == sql.k \in {"sql_create_unique", "sql_create_index"}

\* Step 13: the drop and the creation of the primary key
IsPkChange(sql) == sql.k \in {"sql_delete_pk", "sql_create_pk"}

\* Steps 1 to 12 and 14 to 15 come in the order of the numbered steps
StepsInOrder ==
    /\ Before(CallPos(IsDrop), CallPos(IsRename))
    /\ Before(CallPos(IsRename), CallPos(IsOwnAlter))
    /\ Before(CallPos(IsOwnAlter), CallPos(IsPostAction))
    /\ Before(CallPos(IsPostAction), CallPos(IsUniqueOrIndexCreate))
    /\ Before(CallPos(IsOwnAlter), CallPos(IsUniqueOrIndexCreate))
    /\ Before(CallPos(IsPkChange), CallPos(LAMBDA q : IsOwn(q, "sql_create_fk")))
    /\ Before(CallPos(LAMBDA q : IsOwn(q, "sql_create_fk")),
              CallPos(LAMBDA q : IsOwn(q, "sql_create_check")))

(* C27 as claimed: the statements one alter_field call issues follow the
   order of the numbered steps: the column rename after all constraint drops
   of steps 2 to 6 and before the ALTER actions; post-actions after the ALTER
   actions and before unique/index creation; the PK drop/create and the
   rebuild of the foreign keys on other tables that reference the column
   (step 13) before the field's own FK is (re)created (step 14), which is
   issued before the check constraint is created (step 15). *)
C27_StepOrder ==
    AlterCalled =>
        /\ StepsInOrder
        /\ Before(CallPos(LAMBDA q : IsIncoming(q, "sql_create_fk")),
                  CallPos(LAMBDA q : IsOwn(q, "sql_create_fk")))

----------------------------------------------------------------------------
\* A flag that is not None is the value the constraint's attribute must have
FlagAgrees(flag, value) == flag = "None" \/ value = (flag = "True")

\* The introspected constraints whose column list is the given list (any, when
\* no list is given) and whose attributes agree with every flag
AgreeingConstraints(args) ==
    {info \in get_constraints(db, "a") :
        /\ ~args.column_names.given \/ args.column_names.names = info.columns
        /\ FlagAgrees(args.unique, info.unique)
        /\ FlagAgrees(args.primary_key, info.primary_key)
        /\ FlagAgrees(args.index, info.index)
        /\ FlagAgrees(args.foreign_key, info.foreign_key)
        /\ FlagAgrees(args.check, info.check)}

(* C28 as claimed: _constraint_names returns exactly the names of the
   introspected constraints whose column list equals the given list in the
   same order (or every constraint when columns is None) and whose kind
   attribute agrees with each flag that is not None, for both True and False
   values of every flag. *)
C28_ExactFilter ==
    (result.of = "_constraint_names") =>
        /\ Range(result.value) = {info.name : info \in AgreeingConstraints(result.args)}
        /\ Len(result.value) = Cardinality(AgreeingConstraints(result.args))

----------------------------------------------------------------------------
\* 'DEFAULT <param>' is rendered
DefaultRendered(args) == args.include_default /\ effective_default(args.field) # "None"

NullRendered(args) ==
    \/ args.field.null
    \/ /\ features.interprets_empty_strings_as_nulls
       /\ args.field.empty_strings_allowed
       /\ ~args.field.primary_key

\* The type, the default, the nullability and the PRIMARY KEY or UNIQUE clause
ClaimedClauses(args) ==
    <<args.field.type>>
    \o (IF DefaultRendered(args) THEN <<"DEFAULT %s">> ELSE << >>)
    \o (IF NullRendered(args) THEN <<"NULL">> ELSE <<"NOT NULL">>)
    \o (IF args.field.primary_key THEN <<"PRIMARY KEY">>
        ELSE IF args.field.unique THEN <<"UNIQUE">> ELSE << >>)

\* What follows these clauses in the definition
AfterClaimedClauses(args) ==
    SubSeq(result.value.sql, Len(ClaimedClauses(args)) + 1, Len(result.value.sql))

(* C29: column_sql returns (None, None) for a field with no database type;
   otherwise its result is the type, followed by 'DEFAULT <param>' exactly
   when include_default is set and the effective default is not None (the
   parameter list then holds exactly that default, else it is empty),
   followed by NULL when the field is nullable or when the dialect
   interprets empty strings as NULL and the field allows empty strings and
   is not a primary key, else NOT NULL, followed directly by PRIMARY KEY when
   the field is a primary key, else UNIQUE when it is unique (never both);
   nothing but the tablespace clause of the column follows. *)
C29_ColumnDefinition ==
    (result.of = "column_sql") =>
        IF result.args.field.type = "None"
        THEN result.value.none
        ELSE /\ ~result.value.none
             /\ Len(result.value.sql) >= Len(ClaimedClauses(result.args))
             /\ SubSeq(result.value.sql, 1, Len(ClaimedClauses(result.args)))
                   = ClaimedClauses(result.args)
             /\ AfterClaimedClauses(result.args) \in {<< >>, <<"TABLESPACE">>}
             /\ result.value.params =
                   IF DefaultRendered(result.args)
                   THEN <<effective_default(result.args.field)>> ELSE << >>
             /\ ~({"PRIMARY KEY", "UNIQUE"} \subseteq Range(result.value.sql))

C29_Witness ==
    /\ result.of = "column_sql"
    /\ result.args.include_default
    /\ features.interprets_empty_strings_as_nulls
    /\ ~result.args.field.null
    /\ result.value.sql = <<"integer", "DEFAULT %s", "NULL", "UNIQUE">>
    /\ result.value.params = <<"d1">>

----------------------------------------------------------------------------
\* The tail '_{first_column}{hash}{suffix}' of a multi-column or suffixed name
NameTail ==
    <<"_">> \o naming.column_names[1]
    \o index_unique_name(naming.seed, sanitize(naming.table), naming.column_names)
    \o naming.suffix

EndsWith(str, tail) ==
    /\ Len(str) >= Len(tail)
    /\ SubSeq(str, Len(str) - Len(tail) + 1, Len(str)) = tail

\* The name is multi-column or suffixed, too long, and its tail fits
TailFits ==
    /\ ~(Len(naming.column_names) = 1 /\ naming.suffix = << >>)
    /\ Len(sanitize(NaiveName)) > features.max_index_name_length
    /\ Len(NameTail) <= features.max_index_name_length

(* C30 as claimed: when the multi-column or suffixed name composed by
   _create_index_name exceeds the maximum length and the tail
   '_{first_column}{hash}{suffix}' fits in it, only the table-name portion is
   truncated: the returned name ends with that complete tail, for every table
   name including those starting with a digit or an underscore. *)
C30_TailIntact ==
    \A i \in 1..Len(naming.returned) :
        TailFits => EndsWith(naming.returned[i], NameTail)

----------------------------------------------------------------------------
(* The like index of the PostgreSQL editor *)

PgAlterCalled == call.op = "_alter_field"

IsLikeIndexName(name) == name = create_index_name(call.table, <<call.new.column>>, "_like")

IsLikeCreate(sql) == sql.k = "sql_create_index" /\ IsLikeIndexName(sql.name)

IsLikeDrop(sql) == sql.k = "sql_delete_index" /\ IsLikeIndexName(sql.name)

LikeIndexExists == \E c \in db : c.kind = "index" /\ IsLikeIndexName(c.name)

\* The primary index or the unique constraint of the column exists
PrimaryExists ==
    \E c \in db : /\ c.table = call.table
                  /\ c.columns = <<call.new.column>>
                  /\ c.kind \in {"index", "unique"}
                  /\ ~IsLikeIndexName(c.name)

IsTextColumn(field) ==
    (starts_with(field.type, "varchar") \/ starts_with(field.type, "text"))
    /\ ~has_bracket(field.type)

HasDeterministicCollation(field) ==
    field.db_collation = "" \/ is_collation_deterministic(field.db_collation) = "True"

IsIndexed(field) == field.db_index \/ field.unique

(* C31: on PostgreSQL, for a varchar or text column that is not an array and
   has a deterministic collation, an _alter_field that returns has created the
   '_like' index when the field became indexed or unique, and has left no
   '_like' index (and no primary index or unique constraint) when the field
   was indexed or unique and the new field is neither; no '_like' index is
   created for an array-typed column or a non-deterministic collation. *)
C31_LikeIndexLockstep ==
    (PgAlterCalled /\ exc = "none") =>
        /\ (/\ IsTextColumn(call.new) /\ HasDeterministicCollation(call.new)
            /\ ~IsIndexed(call.old) /\ IsIndexed(call.new))
           => (CountOf(IsLikeCreate) = 1 /\ LikeIndexExists /\ PrimaryExists)
        /\ (/\ IsTextColumn(call.old) /\ HasDeterministicCollation(call.old)
            /\ IsIndexed(call.old) /\ ~IsIndexed(call.new))
           => (~LikeIndexExists /\ ~PrimaryExists)
        /\ (has_bracket(call.new.type)
            \/ is_collation_deterministic(call.new.db_collation) = "False")
           => CountOf(IsLikeCreate) = 0

\* A text column became indexed and got its like index; another lost both
C31_Witness ==
    /\ PgAlterCalled /\ exc = "none"
    /\ IsTextColumn(call.new) /\ HasDeterministicCollation(call.new)
    /\ ~IsIndexed(call.old) /\ call.new.db_index /\ ~call.new.unique
    /\ CountOf(IsLikeCreate) = 1 /\ LikeIndexExists

----------------------------------------------------------------------------
(* The identity and sequence post-actions of the PostgreSQL editor *)

HookCalled == result.of = "_alter_column_type_sql"

IsAuto(field) == field.internal_type \in auto_field_types

\* A sequence existed for the column when the hook was called
SequenceExisted ==
    \E c \in saved.db : c.kind = "sequence" /\ c.table = "a"
                        /\ c.columns = <<result.args.new_field.column>>

PostKinds == [i \in 1..Len(result.value.post) |-> result.value.post[i].k]

IsIdentityOrSequence(sql) ==
    sql.k \in {"sql_add_identity", "sql_drop_indentity", "sql_delete_sequence",
               "sql_alter_sequence_type"}

(* C32: the PostgreSQL _alter_column_type_sql returns ADD IDENTITY as its
   only post-action (and executes no identity or sequence statement itself)
   when a non-auto field becomes an auto field, and _alter_field runs it after
   the type-altering ALTER TABLE; when an auto field becomes non-auto it
   executes DROP IDENTITY itself and returns DROP SEQUENCE exactly when a
   sequence exists for the column; when the auto-field subtype changes it
   returns ALTER SEQUENCE ... AS the new type exactly when a sequence exists,
   and neither drops nor re-creates the sequence; in every other case it
   returns no post-action and executes no identity or sequence statement. *)
C32_IdentityPostActions ==
    /\ HookCalled =>
         LET old_field == result.args.old_field
             new_field == result.args.new_field
         IN CASE ~IsAuto(old_field) /\ IsAuto(new_field) ->
                   /\ PostKinds = <<"sql_add_identity">>
                   /\ CountOf(IsIdentityOrSequence) = 0
              [] IsAuto(old_field) /\ ~IsAuto(new_field) ->
                   /\ CountOf(LAMBDA q : q.k = "sql_drop_indentity") = 1
                   /\ PostKinds = IF SequenceExisted THEN <<"sql_delete_sequence">>
                                  ELSE << >>
              [] IsAuto(old_field) /\ IsAuto(new_field)
                 /\ old_field.internal_type # new_field.internal_type ->
                   /\ CountOf(IsIdentityOrSequence) = 0
                   /\ PostKinds = IF SequenceExisted THEN <<"sql_alter_sequence_type">>
                                  ELSE << >>
                   /\ SequenceExisted =>
                        result.value.post[1].body = <<auto_db_type(new_field.internal_type)>>
              [] OTHER ->
                   /\ PostKinds = << >>
                   /\ CountOf(IsIdentityOrSequence) = 0
    /\ (PgAlterCalled /\ exc = "none" /\ call.old.type # call.new.type) =>
         /\ (~IsAuto(call.old) /\ IsAuto(call.new)) =>
              /\ CountOf(LAMBDA q : q.k = "sql_add_identity") = 1
              /\ Before(CallPos(IsOwnTypeAlter),
                        CallPos(LAMBDA q : q.k = "sql_add_identity"))
         /\ (IsAuto(call.old) /\ ~IsAuto(call.new)) =>
              /\ Before(CallPos(LAMBDA q : q.k = "sql_drop_indentity"),
                        CallPos(IsOwnTypeAlter))
              /\ Before(CallPos(IsOwnTypeAlter),
                        CallPos(LAMBDA q : q.k = "sql_delete_sequence"))
         /\ (IsAuto(call.old) /\ IsAuto(call.new)) =>
              /\ CountOf(LAMBDA q : q.k \in {"sql_delete_sequence", "sql_add_identity"}) = 0
              /\ (\E c \in db : c.kind = "sequence")
                 <=> (\E c0 \in saved.db : c0.kind = "sequence")

\* The subtype of an auto field with a sequence changed: ALTER SEQUENCE is returned
C32_Witness ==
    /\ HookCalled
    /\ IsAuto(result.args.old_field) /\ IsAuto(result.args.new_field)
    /\ result.args.old_field.internal_type # result.args.new_field.internal_type
    /\ SequenceExisted
    /\ PostKinds = <<"sql_alter_sequence_type">>

----------------------------------------------------------------------------
(* The index and unique objects of the altered column *)

\* The objects of a kind the database holds on the column of new_field
ColumnObjects(kind) ==
    {c \in db : c.table = call.table /\ c.columns = <<call.new.column>> /\ c.kind = kind}

\* alter_field has returned, on a table that held exactly what old_field
\* implies; neither field is the primary key
C33_Case ==
    /\ AlterCalled
    /\ exc = "none"
    /\ ~collect_sql
    /\ saved.db = AlterDatabase(saved.models, 1)
    /\ ~call.old.primary_key /\ ~call.new.primary_key

(* C33: alter_field(model, old, new) on a table that matches old leaves the
   column with exactly the index and unique objects create_model produces for
   new: one unique constraint iff new.unique, and one non-unique index iff
   new.db_index and not new.unique. *)
C33_AlterLeavesCreateModelObjects ==
    C33_Case =>
        /\ Cardinality(ColumnObjects("unique")) = IF call.new.unique THEN 1 ELSE 0
        /\ Cardinality(ColumnObjects("index"))
              = IF call.new.db_index /\ ~call.new.unique THEN 1 ELSE 0

----------------------------------------------------------------------------
(* C34: add_field issues the DROP DEFAULT of the column only after an ADD
   COLUMN statement that carried a DEFAULT clause; for a field with no default
   provided no DROP DEFAULT is issued. *)
C34_DropDefaultOnlyAfterDefault ==
    AddFieldCalled =>
        /\ \A i \in CallPos(IsDropDefault) :
              \E j \in CallPos(IsAddColumn) : j < i /\ HasDefaultClause(CallSql[j])
        /\ call.new.default = "NOT_PROVIDED" => CountOf(IsDropDefault) = 0

----------------------------------------------------------------------------
(* The deferred list over several sessions *)

IsPrefix(a, b) == Len(a) <= Len(b) /\ SubSeq(b, 1, Len(a)) = a

(* C35: over the sessions of one editor object, entering a session starts
   with an empty deferred list, an operation only appends to it, and the
   statements of the list are executed only by the clean close of that
   session, each at most once and in order: a close with an exception
   executes none, and nothing is executed between sessions. *)
C35_DeferredRunInOwnSession ==
    [][/\ (session = "closed" /\ session' = "open") => deferred_sql' = << >>
       /\ (session = "open" /\ session' = "open") => IsPrefix(deferred_sql, deferred_sql')
       /\ (session = "open" /\ session' = "closed") =>
             /\ deferred_sql' = deferred_sql
             /\ IF exc = "none" /\ exc' \in {"none", "DatabaseError"}
                   /\ (exc' = "DatabaseError" => Len(NewEvents) >= 1 /\ NewEvents[Len(NewEvents)].raised)
                THEN IsPrefix(NewSql, deferred_sql)
                ELSE NewSql = << >>
       /\ (session = "closed" /\ session' = "closed") => trace' = trace]_vars

\* A second session closed cleanly and executed a deferred statement of its
\* own, after a first session that deferred statements ended with an exception
C35_Witness ==
    /\ nsessions = 2
    /\ session = "closed"
    /\ exc = "none"
    /\ features.supports_foreign_keys
    /\ Len(deferred_sql) >= 1
    /\ Len(trace) >= 2
    /\ trace[Len(trace)].ev = "atomic_exit"
    /\ IsStmt(trace[Len(trace) - 1])
    /\ trace[Len(trace) - 1].sql = deferred_sql[Len(deferred_sql)]
    /\ \E i \in 1..Len(trace) :
          /\ trace[i].ev = "atomic_exit" /\ trace[i].exc # "none"
          /\ \E j \in 1..(i - 1) : IsStmt(trace[j]) /\ trace[j].sql.k = "sql_create_table"

----------------------------------------------------------------------------
(* The names the operations give to the index and the foreign key of a column *)

\* An editor that has issued nothing
Fresh ==
    [trace |-> << >>, db |-> {}, deferred |-> << >>, exc |-> "none", n |-> 0,
     fail |-> 0, collect |-> FALSE, geometry |-> << >>]

\* The statements create_model defers for a model that holds new_field
CreateModelDefers ==
    create_model(Fresh, Model(call.table,
                              IF call.new.primary_key THEN <<call.new>>
                              ELSE <<IdField, call.new>>,
                              << >>, << >>, << >>)).deferred

\* The statements add_field defers for new_field
AddFieldDefers ==
    add_field(Fresh, Model(call.table, <<IdField>>, << >>, << >>, << >>), call.new).deferred

\* Two statements create the same object: kind, table, column and target
SameObject(p, q) ==
    /\ p.k = q.k
    /\ p.table = q.table
    /\ p.columns = q.columns
    /\ p.ref = q.ref

IsColumnIndexOrFk(sql) ==
    /\ sql.k \in {"sql_create_index", "sql_create_fk"}
    /\ sql.table = call.table
    /\ sql.columns = <<call.new.column>>

(* C36: the single-column index and the FK constraint that alter_field
   creates for a column have the names that create_model and add_field give to
   the same object (same kind, table, column and target), and create_model
   and add_field give the same name too. *)
C36_NamesIndependentOfOperation ==
    AlterCalled =>
        /\ \A i \in CallPos(IsColumnIndexOrFk) :
              \A q \in Range(CreateModelDefers) \cup Range(AddFieldDefers) :
                 SameObject(CallSql[i], q) => q.name = CallSql[i].name
        /\ \A p \in Range(CreateModelDefers) : \A q \in Range(AddFieldDefers) :
              (IsColumnIndexOrFk(p) /\ SameObject(p, q)) => p.name = q.name

----------------------------------------------------------------------------
(* strict on the many-to-many repoint path *)

\* alter_field delegated to _alter_many_to_many
RepointCalled ==
    /\ AlterCalled
    /\ call.old.type = "None" /\ call.new.type = "None"
    /\ both_auto_created(call.old, call.new) = "True"

\* The FK constraints the database held on the reverse foreign key of the
\* through table when alter_field was called
ReverseFkConstraints ==
    {c \in saved.db : /\ c.table = call.old.rel.through
                      /\ c.columns = <<reverse_field(through_model(models[call.table],
                                                                   call.old)).column>>
                      /\ c.kind = "foreign_key"}

(* C37: when alter_field(model, old, new, strict=True) delegates to
   _alter_many_to_many and introspection does not find exactly one FK
   constraint on the through table's reverse foreign key, ValueError is
   raised. *)
C37_StrictOnRepoint ==
    (RepointCalled /\ call.strict /\ ~collect_sql
     /\ Cardinality(ReverseFkConstraints) # 1)
        => exc = "ValueError"

----------------------------------------------------------------------------
(* The pending geometry statements of the Spatialite editor *)

IsGeometryCreate(sql) == sql.k \in {"sql_add_geometry_column", "sql_add_spatial_index"}

\* The statements the last call issued for the geometry column c of its table
CountFor(k, c) ==
    CountOf(LAMBDA q : q.k = k /\ q.table = call.table /\ q.columns = <<c>>)

(* C38: in the Spatialite editor geometry_sql is empty whenever no operation
   is in progress, whether the last operation returned or raised; the geometry
   statements an operation executes are those of its own table, after the
   CREATE TABLE of that table in create_model, and a create_model that returns
   has executed the registration of each geometry column of the model exactly
   once. *)
C38_NoPendingGeometrySql ==
    /\ geometry_sql = << >>
    /\ \A i \in CallPos(IsGeometryCreate) :
          /\ CallSql[i].table = call.table
          /\ call.op = "create_model" =>
                \E j \in 1..(i - 1) : /\ CallSql[j].k = "sql_create_table"
                                      /\ CallSql[j].table = call.table
    /\ (call.op = "create_model" /\ exc = "none") =>
          \A c \in GeometryColumns(models[call.table]) :
             CountFor("sql_add_geometry_column", c) = 1

----------------------------------------------------------------------------
(* Creation and removal of the out-of-band objects of a geometry field *)

\* The geometry fields of the model the operation is called with: those of
\* the caller's model, or the field passed to add_field or remove_field
OperationGeometryFields ==
    IF call'.op \in {"add_field", "remove_field"}
    THEN {call'.new} \cap {f \in {call'.new} : is_geometry(f)}
    ELSE IF call'.op = "create_model"
    THEN {f \in Range(models'[call'.table].local_fields) : is_geometry(f)}
    ELSE {f \in Range(models[call'.table].local_fields) : is_geometry(f)}

\* The number of statements of template k the step issues for the column
NewCount(k, column) ==
    Cardinality({i \in 1..Len(NewSql) : /\ NewSql[i].k = k
                                        /\ NewSql[i].table = call'.table
                                        /\ NewSql[i].columns = <<column>>})

(* C39: in the Spatialite editor, with nothing pending, an operation that
   returns issues for each geometry field of its model: in create_model and
   add_field the registration of the geometry column, and the creation of the
   spatial index iff field.spatial_index; in delete_model and remove_field the
   discarding of the registration, and the drop of the spatial index iff
   field.spatial_index. *)
C39_SpatialIndexSymmetric ==
    [][(nops' # nops /\ exc' = "none" /\ geometry_sql = << >>) =>
          \A f \in OperationGeometryFields :
             /\ call'.op \in {"create_model", "add_field"} =>
                   /\ NewCount("sql_add_geometry_column", f.column) = 1
                   /\ NewCount("sql_add_spatial_index", f.column)
                         = IF f.spatial_index THEN 1 ELSE 0
             /\ call'.op \in {"delete_model", "remove_field"} =>
                   /\ NewCount("sql_remove_geometry_metadata", f.column) = 1
                   /\ NewCount("sql_drop_spatial_index", f.column)
                         = IF f.spatial_index THEN 1 ELSE 0]_vars

====
